---------------------------- MODULE Spec2Model ----------------------------
(* A model of the YouTube download bot: the throttling middlewares         *)
(* (src/bot/middlewares/throttling.py), the text and button handlers       *)
(* (src/bot/handlers/messages.py, callbacks.py), the keyboards             *)
(* (src/bot/keyboards/inline.py) and the download service                  *)
(* (src/bot/services/youtube.py).                                          *)
(*                                                                         *)
(* A handler is a coroutine: it runs without interruption from one await   *)
(* of a network or executor call to the next, so every action below is     *)
(* the code between two such awaits.  pc names the call a handler is       *)
(* suspended in.  Strings (texts, URLs, button payloads, file names) are   *)
(* sequences of tokens; a token stands for a run of characters.  Times     *)
(* are in tenths of a second.  Messages are named by their key in          *)
(* locales (the language only selects the wording).                        *)
EXTENDS Integers, Sequences, FiniteSets, TLC

---------------------------------------------------------------------------
(* Bounds of the model *)

\* handler invocations (requests that passed a gate) in one run
MaxHandlers == 3
\* tenths of a second the clock runs after the first request
MaxClock == 10
\* calls of the chat transport, the extraction tool or the file system that
\* fail in one run (an edit that changes nothing always fails, uncounted)
MaxFaults == 2
\* handler invocations in one run in which every button pressed is "audio"
MaxAudioHandlers == 4
\* requests dropped by a gate in one run
MaxDropped == 1
\* handler invocations in one run of the two users that share the event loop
MaxLoopHandlers == 4
\* handler invocations in one run in which only the extraction tool fails
MaxFailHandlers == 4
\* handler invocations in one run over the videos of ProbeFormatSets
MaxFormatHandlers == 3
\* tokens in a text message given to the link validator
MaxTextLen == 3

\* requests let through to handlers registered with a flag
MaxFlagHandlers == 3

\* presses on the buttons of a message left by an earlier run
MaxLegacyHandlers == 3

\* tokens of a URL put into a button payload
MaxUrlLen == 3

\* handler 1 and the presses on the keyboard it built
MaxPayloadHandlers == 3

\* the handler of the link and those of the presses that follow it
MaxAckHandlers == 3

\* handler invocations of the language handlers
MaxPrefHandlers == 3

(* Program constants *)

\* ThrottlingMiddleware(default_rate=0.5) on messages
MessageRate == 5
\* ThrottlingMiddleware(default_rate=0.3) on callback queries
CallbackRate == 3

Users == {1}

\* time.time() of the first request: later than any rate after the epoch
StartTime == 2 * MessageRate

---------------------------------------------------------------------------
(* Strings *)

Max(a, b) == IF a >= b THEN a ELSE b

Abs(a) == IF a >= 0 THEN a ELSE 0 - a

RECURSIVE LStripSet(_, _)
LStripSet(s, cs) ==
  IF s # <<>> /\ Head(s) \in cs THEN LStripSet(Tail(s), cs) ELSE s

RECURSIVE RStripSet(_, _)
RStripSet(s, cs) ==
  IF s # <<>> /\ s[Len(s)] \in cs
  THEN RStripSet(SubSeq(s, 1, Len(s) - 1), cs) ELSE s

\* str.strip()
Strip(s) == RStripSet(LStripSet(s, {" "}), {" "})

\* url.strip() followed by re.sub(r'^[@\s]+', '', url)
CleanUrl(s) == LStripSet(Strip(s), {"@", " "})

\* str.split(":")
RECURSIVE SplitColon(_)
SplitColon(s) ==
  IF \A i \in 1..Len(s) : s[i] # ":" THEN <<s>>
  ELSE LET k == CHOOSE i \in 1..Len(s) :
                  s[i] = ":" /\ \A j \in 1..(i - 1) : s[j] # ":"
       IN <<SubSeq(s, 1, k - 1)>> \o SplitColon(SubSeq(s, k + 1, Len(s)))

\* ":".join(parts)
RECURSIVE JoinColon(_)
JoinColon(parts) ==
  IF parts = <<>> THEN <<>>
  ELSE IF Len(parts) = 1 THEN parts[1]
  ELSE parts[1] \o <<":">> \o JoinColon(Tail(parts))

StartsWith(s, p) == Len(s) >= Len(p) /\ SubSeq(s, 1, Len(p)) = p

---------------------------------------------------------------------------
(* Link validator *)

HostTokens == {"youtube.com", "youtu.be"}

\* re.search(YOUTUBE_URL_PATTERN, url): a host, a path shape, an 11-character id
PatternMatches(s) ==
  \E i \in 1..Len(s) :
    /\ i + 2 <= Len(s)
    /\ \/ s[i] = "youtube.com" /\ s[i + 1] \in {"/watch?v=", "/embed/", "/v/"}
       \/ s[i] = "youtu.be" /\ s[i + 1] = "/"
    /\ s[i + 2] = "id11"

\* 'youtube.com' in token or 'youtu.be' in token: the host itself, or a
\* longer run of characters with the host inside it
HasHost(token) == token \in HostTokens \cup {"notyoutube.community"}

is_valid_youtube_url_pattern_only(url) ==
  IF url = <<>> THEN FALSE ELSE PatternMatches(CleanUrl(url))

is_valid_youtube_url(url) ==
  IF url = <<>> THEN FALSE
  ELSE LET cleaned == CleanUrl(url)
       IN IF \E i \in 1..Len(cleaned) : HasHost(cleaned[i]) THEN TRUE
          ELSE PatternMatches(cleaned)

---------------------------------------------------------------------------
(* Format resolver *)

QualityLabels == <<"144p", "240p", "360p", "480p", "720p", "1080p", "1440p", "2160p">>

RESOLUTIONS ==
  [q \in {QualityLabels[i] : i \in 1..Len(QualityLabels)} |->
     CASE q = "144p" -> 144 [] q = "240p" -> 240 [] q = "360p" -> 360
       [] q = "480p" -> 480 [] q = "720p" -> 720 [] q = "1080p" -> 1080
       [] q = "1440p" -> 1440 [] q = "2160p" -> 2160]

DefaultFormats == <<"144p", "240p", "360p", "480p", "720p", "1080p">>

WithinTolerancePercent(available_height, height) ==
  10 * Abs(available_height - height) <= height

\* height_diff <= max(height * 0.1, 50), in tenths of a pixel
WithinTolerance(available_height, height) ==
  10 * Abs(available_height - height) <= Max(height, 500)

RECURSIVE SelectLabels(_, _)
SelectLabels(labels, keep) ==
  IF labels = <<>> THEN <<>>
  ELSE (IF Head(labels) \in keep THEN <<Head(labels)>> ELSE <<>>)
         \o SelectLabels(Tail(labels), keep)

SetMin(S) == CHOOSE x \in S : \A y \in S : x <= y

SetMaxLeast(S) == CHOOSE x \in S : \A y \in S : x <= y

SetMax(S) == CHOOSE x \in S : \A y \in S : y <= x

\* a format of info['formats']: height 0 stands for a format with no height
Video(height) == [vcodec |-> "avc1", acodec |-> "none", height |-> height]

Combined(height) == [vcodec |-> "avc1", acodec |-> "mp4a", height |-> height]

AudioOnly == [vcodec |-> "none", acodec |-> "mp4a", height |-> 0]

\* the heights of the formats with a video codec and a height
AvailableHeights(formats) ==
  {fmt.height : fmt \in {f \in formats : f.vcodec # "none" /\ f.height # 0}}

\* the labels with some available height within tolerance
Matched(available_heights) ==
  {q \in DOMAIN RESOLUTIONS :
     \E h \in available_heights : WithinTolerance(h, RESOLUTIONS[q])}

FallbackMaxHeight1080(available_heights) ==
  IF available_heights # {} THEN SetMax(available_heights) ELSE 1080

\* max(available_heights) if available_heights else 720
FallbackMaxHeight(available_heights) ==
  IF available_heights # {} THEN SetMax(available_heights) ELSE 720

\* the labels with a resolution up to the greatest available height
Lower(available_heights) ==
  {q \in DOMAIN RESOLUTIONS :
     RESOLUTIONS[q] <= FallbackMaxHeight(available_heights)}

RECURSIVE InsertByResolution(_, _)
InsertByResolution(q, sorted) ==
  IF sorted = <<>> THEN <<q>>
  ELSE IF RESOLUTIONS[q] < RESOLUTIONS[Head(sorted)] THEN <<q>> \o sorted
  ELSE <<Head(sorted)>> \o InsertByResolution(q, Tail(sorted))

\* available_formats.sort(key=lambda x: self.RESOLUTIONS[x])
RECURSIVE SortByResolution(_)
SortByResolution(available_formats) ==
  IF available_formats = <<>> THEN <<>>
  ELSE InsertByResolution(Head(available_formats),
                          SortByResolution(Tail(available_formats)))

FormatsFromHeightsDescending(available_heights) ==
  LET matched == SelectLabels(QualityLabels, Matched(available_heights))
      lower == SelectLabels(QualityLabels, Lower(available_heights))
      found == IF matched # <<>> THEN matched ELSE lower
  IN [i \in 1..Len(found) |-> found[Len(found) + 1 - i]]

\* get_available_formats after a successful probe: the labels matched in
\* the order of their resolutions, else the labels up to the greatest
\* height in the order of RESOLUTIONS, then sorted
FormatsFromHeights(available_heights) ==
  LET matched == SelectLabels(QualityLabels, Matched(available_heights))
      lower == SelectLabels(QualityLabels, Lower(available_heights))
  IN SortByResolution(IF matched # <<>> THEN matched ELSE lower)

\* RESOLUTIONS.get(quality, 720)
TargetHeight(quality) ==
  IF Len(quality) = 1 /\ quality[1] \in DOMAIN RESOLUTIONS
  THEN RESOLUTIONS[quality[1]] ELSE 720

\* a format string of the extraction tool: alternatives ('/') of merged
\* selectors ('+'); a selector picks the best video-only, audio-only or
\* combined format, with or without the filter [height<=N]
Selector(pick, capped, height) == [pick |-> pick, capped |-> capped, height |-> height]

\* 'bestaudio/best'
audio_format_code ==
  << <<Selector("bestaudio", FALSE, 0)>>, <<Selector("best", FALSE, 0)>> >>

video_format_code_best_uncapped(quality) ==
  << <<Selector("bestvideo", TRUE, TargetHeight(quality)),
       Selector("bestaudio", FALSE, 0)>>,
     <<Selector("best", FALSE, 0)>> >>

\* f"bestvideo[height<={height}]+bestaudio/best[height<={height}]"
video_format_code(quality) ==
  << <<Selector("bestvideo", TRUE, TargetHeight(quality)),
       Selector("bestaudio", FALSE, 0)>>,
     <<Selector("best", TRUE, TargetHeight(quality))>> >>

\* the formats a selector chooses from
Candidates(sel, formats) ==
  {f \in formats :
     /\ CASE sel.pick = "bestvideo" -> f.vcodec # "none" /\ f.acodec = "none"
           [] sel.pick = "bestaudio" -> f.vcodec = "none" /\ f.acodec # "none"
           [] sel.pick = "best" -> f.vcodec # "none" /\ f.acodec # "none"
     /\ sel.capped => f.height # 0 /\ f.height <= sel.height}

Best(candidates) == CHOOSE f \in candidates : \A g \in candidates : g.height <= f.height

Selectable(alternative, formats) ==
  \A i \in 1..Len(alternative) : Candidates(alternative[i], formats) # {}

\* the formats the extraction tool downloads for a format string: those of
\* the first alternative every selector of which finds a format; none when
\* no alternative does ('Requested format is not available')
SelectFormats(format_code, formats) ==
  LET usable == {i \in 1..Len(format_code) : Selectable(format_code[i], formats)}
  IN IF usable = {} THEN {}
     ELSE LET alternative == format_code[SetMin(usable)]
          IN {Best(Candidates(alternative[i], formats)) : i \in 1..Len(alternative)}

---------------------------------------------------------------------------
(* Keyboards: the sequence of the buttons' callback_data *)

NoKeyboard == <<>>

get_format_keyboard(url) ==
  IF url # <<>>
  THEN << <<"format", ":", "video", ":">> \o url,
          <<"format", ":", "audio", ":">> \o url,
          <<"cancel">> >>
  ELSE << <<"format", ":", "video">>, <<"format", ":", "audio">>, <<"cancel">> >>

\* a keyboard of the labels as given, none substituted for an empty list
get_video_quality_keyboard_as_given(url, available_formats) ==
  [i \in 1..Len(available_formats) |->
     <<"quality", ":", available_formats[i], ":">> \o url]
    \o << <<"back_to_format", ":">> \o url, <<"cancel">> >>

get_video_quality_keyboard(url, available_formats) ==
  LET formats == IF available_formats = <<>> THEN QualityLabels
                 ELSE available_formats
  IN [i \in 1..Len(formats) |-> <<"quality", ":", formats[i], ":">> \o url]
       \o << <<"back_to_format", ":">> \o url, <<"cancel">> >>

\* dict.get(key, default)
Get(d, k, default) == IF k \in DOMAIN d THEN d[k] ELSE default

\* d[key] = value
Put(d, k, v) == [x \in DOMAIN d \cup {k} |-> IF x = k THEN v ELSE d[x]]

\* del d[key]
Del(d, k) == [x \in DOMAIN d \ {k} |-> d[x]]

\* get_language_keyboard: one button for each language of the Localization
get_language_keyboard ==
  << <<"language", ":", "ru">>, <<"language", ":", "en">> >>

---------------------------------------------------------------------------
(* UserSettings and UserDatabase *)

\* the languages of the Localization
Languages == {"ru", "en"}

\* str(user_id) of the user ids that occur
str(user_id) == CASE user_id = 1 -> "1" [] user_id = 2 -> "2"

\* whether int(key) returns; it raises ValueError otherwise
IsIntegerLiteral(key) == key \in {"1", "2"}

\* int(key)
int(key) == CASE key = "1" -> 1 [] key = "2" -> 2

\* UserSettings(user_id, language)
UserSettings(user_id, language) ==
  [user_id |-> user_id, language |-> language]

\* UserSettings.to_dict
to_dict(user) == [user_id |-> user.user_id, language |-> user.language]

\* UserSettings.from_dict
from_dict(data) ==
  UserSettings(data["user_id"], Get(data, "language", "en"))

\* users.json: absent, not JSON (empty or cut short included), JSON whose
\* top level is not an object, or a JSON object of key -> user data
MissingFile == [kind |-> "missing", entries |-> <<>>]

InvalidJson == [kind |-> "invalid", entries |-> <<>>]

JsonArray == [kind |-> "array", entries |-> <<>>]

JsonObject(entries) == [kind |-> "object", entries |-> entries]

\* UserDatabase._ensure_db_exists: json.dump({}) into a file that is absent
_ensure_db_exists(f) == IF f.kind = "missing" THEN JsonObject(<<>>) ELSE f

\* UserDatabase._load_users: the table, or the exception that leaves it.
\* JSONDecodeError and FileNotFoundError are caught; the AttributeError of
\* data.items() and the ValueError of int(user_id) are not
_load_users(f) ==
  IF f.kind \in {"missing", "invalid"}
  THEN [raised |-> FALSE, users |-> <<>>]
  ELSE IF f.kind # "object"
  THEN [raised |-> TRUE, users |-> <<>>]
  ELSE IF \E key \in DOMAIN f.entries : ~IsIntegerLiteral(key)
  THEN [raised |-> TRUE, users |-> <<>>]
  ELSE [raised |-> FALSE,
        users |-> [user_id \in {int(key) : key \in DOMAIN f.entries} |->
                     from_dict(Put(f.entries[str(user_id)],
                                   "user_id", user_id))]]

\* UserDatabase._save_users: open(db_path, "w") truncates the file, then
\* json.dump writes the table; a write that fails leaves the file cut short
_save_users(users, write_ok) ==
  IF write_ok
  THEN JsonObject([key \in {str(user_id) : user_id \in DOMAIN users} |->
                     to_dict(users[int(key)])])
  ELSE InvalidJson

\* a table that forgets every other user
set_user_language_alone(users, user_id, language) ==
  Put(<<>>, user_id, UserSettings(user_id, language))

\* UserDatabase.set_user_language and add_or_update_user: the table
set_user_language(users, user_id, language) ==
  Put(users, user_id,
      IF user_id \in DOMAIN users
      THEN [users[user_id] EXCEPT !.language = language]
      ELSE UserSettings(user_id, language))

\* UserDatabase.get_user_language
get_user_language(users, user_id) ==
  IF user_id \in DOMAIN users THEN users[user_id].language ELSE "en"

---------------------------------------------------------------------------
(* State *)

VARIABLES
  now,        \* time.time()
  msgGate,    \* user_last_request of the gate on messages
  cbGate,     \* user_last_request of the gate on callback queries
  hs,         \* the handler invocations, in order of arrival
  msgs,       \* the bot's messages in the chats: text and inline keyboard
  view,       \* the keyboard each user's client shows under a bot message
  dir,        \* the download directory: file name -> the fetch that wrote it
  nextId,     \* how many uuid4() values have been drawn
  dropped,    \* how many requests the gates have dropped
  faults,     \* how many calls have failed
  _users,     \* UserDatabase._users: user id -> UserSettings
  file,       \* what bot/database/users.json holds
  user_db     \* whether the module-level UserDatabase() was constructed

\* the preference store
store == <<_users, file, user_db>>

vars ==
  <<now, msgGate, cbGate, hs, msgs, view, dir, nextId, dropped, faults, store>>

\* user_db = UserDatabase(), over the file f found at startup
Constructed(f) ==
  LET loaded == _load_users(_ensure_db_exists(f))
  IN /\ file = _ensure_db_exists(f)
     /\ _users = loaded.users
     /\ user_db = IF loaded.raised THEN "raised" ELSE "constructed"

NoName == <<>>

\* the texts users send
LinkText == <<" ", "@", "https", ":", "//", "youtube.com", "/watch?v=", "id11">>

JunkText == <<"hello", " ", "world">>

Texts == {LinkText, JunkText}

\* the title the probe reports for the linked video
VideoTitle == <<"A", "/", "B">>

\* the first eight characters of a uuid, and the rest of it (never repeated)
UuidPrefixes == {"p", "q"}

UuidRest == <<"r1", "r2", "r3", "r4", "r5", "r6">>

\* the formats the extraction tool reports for the video of the link
FormatSets == {{Video(240), Video(480), AudioOnly}}

\* str(e) of what the extraction tool raises: a plain reason, or a network
\* error whose text names an object in angle brackets
ProbeErrors ==
  { <<"ERROR:", "Video unavailable">>,
    <<"ERROR:", "<", "urlopen error", ">">> }

\* str(e) of a TelegramAPIError
TransportError == <<"Telegram server says", "Bad Request">>

\* error="Failed to download audio" / "Failed to download video"
FailedToDownload == <<"Failed to download">>

Handlers == 1..Len(hs)

Init ==
  /\ now = StartTime
  /\ msgGate = <<>>
  /\ cbGate = <<>>
  /\ hs = <<>>
  /\ msgs = <<>>
  /\ view = <<>>
  /\ dir = <<>>
  /\ nextId = 0
  /\ dropped = 0
  /\ faults = 0
  /\ Constructed(MissingFile)

NewHandler(kind, user, msg, pc, url, arg) ==
  [kind |-> kind, user |-> user, msg |-> msg, pc |-> pc, url |-> url,
   arg |-> arg, formats |-> <<>>, title |-> NoName, file_id |-> NoName,
   path |-> NoName, error |-> <<>>, heights |-> {}, selected |-> {},
   log |-> <<>>, at |-> now]

Set(h, rec) == hs' = [hs EXCEPT ![h] = rec]

Logged(rec, what) == [rec EXCEPT !.log = Append(@, what)]

At(rec, pc) == [rec EXCEPT !.pc = pc]

\* a call of the environment returns (ok) or fails, within the fault budget
Outcome(ok) ==
  IF ok THEN UNCHANGED faults
  ELSE faults < MaxFaults /\ faults' = faults + 1

---------------------------------------------------------------------------
(* The clock *)

\* a tenth of a second passes
Tick ==
  /\ now < StartTime + MaxClock
  /\ now' = now + 1
  /\ UNCHANGED <<store, msgGate, cbGate, hs, msgs, view, dir, nextId, dropped, faults>>

\* a pause as long as the longest rate passes
Wait ==
  /\ now + MessageRate <= StartTime + MaxClock
  /\ now' = now + MessageRate
  /\ UNCHANGED <<store, msgGate, cbGate, hs, msgs, view, dir, nextId, dropped, faults>>

---------------------------------------------------------------------------
(* ThrottlingMiddleware.__call__ *)

\* a gate that never finds the user's entry: the default 0 is compared
ThrottledUnkeyed(last_request_time, current_time, throttling_rate) ==
  current_time - 0 < throttling_rate

\* a gate that lets a request through one tenth of a second early
ThrottledEarly(last_request_time, current_time, throttling_rate) ==
  current_time - last_request_time < throttling_rate - 1

\* current_time - last_request_time < throttling_rate
Throttled(last_request_time, current_time, throttling_rate) ==
  current_time - last_request_time < throttling_rate

\* a drop that records the time of the dropped request for every user
DropRecorded ==
  /\ dropped < MaxDropped
  /\ dropped' = dropped + 1
  /\ msgGate' = [u \in DOMAIN msgGate |-> now]
  /\ cbGate' = [u \in DOMAIN cbGate |-> now]
  /\ UNCHANGED <<store, now, hs, msgs, view, dir, nextId, faults>>

\* return None: the handler is not called
Drop ==
  /\ dropped < MaxDropped
  /\ dropped' = dropped + 1
  /\ UNCHANGED <<store, now, msgGate, cbGate, hs, msgs, view, dir, nextId, faults>>

\* get_flag(data, "throttling_rate"): None, or the rate the handler was
\* registered with
NoFlag == <<>>

Flag(rate) == <<rate>>

\* get_flag(data, "throttling_rate") or self.default_rate
throttling_rate(flag, default_rate) ==
  IF flag # NoFlag /\ flag[1] # 0 THEN flag[1] ELSE default_rate

\* whether the gate on messages hands a request of user u to a handler
\* registered with the flag
Passes(u, flag) ==
  LET rate == throttling_rate(flag, MessageRate)
  IN rate <= 0 \/ ~Throttled(Get(msgGate, u, 0), now, rate)

\* the flags handlers are registered with
Flags == {NoFlag, Flag(0), Flag(0 - 1), Flag(2)}

\* a message for a handler registered with the flag arrives at the gate
FlaggedArrives(u, flag) ==
  IF ~Passes(u, flag)
  THEN Drop
  ELSE /\ msgGate' = IF throttling_rate(flag, MessageRate) <= 0 THEN msgGate
                     ELSE Put(msgGate, u, now)
       /\ hs' = Append(hs, NewHandler("flagged", u, 0, "done", <<>>, flag))
       /\ UNCHANGED <<store, now, cbGate, msgs, view, dir, nextId, dropped, faults>>

---------------------------------------------------------------------------
(* handle_text *)

\* get_button("ru", "ru") and get_button("en", "en")
ButtonText(language) == <<"button", language>>

LanguageButtonTexts == {ButtonText(language) : language \in Languages}

\* a text message arrives: the gate, then handle_text up to its first await
TextArrives(u, text) ==
  /\ text \notin LanguageButtonTexts
  /\ IF Throttled(Get(msgGate, u, 0), now, MessageRate)
     THEN Drop
     ELSE /\ msgGate' = Put(msgGate, u, now)
          /\ LET cleaned == CleanUrl(text)
             IN hs' = Append(hs,
                  IF is_valid_youtube_url(cleaned)
                  THEN NewHandler("text", u, 0, "answer_processing", cleaned, <<>>)
                  ELSE NewHandler("text", u, 0, "done", cleaned, <<>>))
          /\ UNCHANGED <<store, now, cbGate, msgs, view, dir, nextId, dropped, faults>>

\* message.answer(processing) returns or raises
TextAnswerProcessing(h, ok) ==
  /\ hs[h].kind = "text" /\ hs[h].pc = "answer_processing"
  /\ Outcome(ok)
  /\ IF ok
     THEN /\ msgs' = Put(msgs, h, [user |-> hs[h].user, text |-> "processing",
                                   detail |-> <<>>, kb |-> NoKeyboard])
          /\ view' = Put(view, h, NoKeyboard)
          /\ Set(h, Logged(At([hs[h] EXCEPT !.msg = h], "probe"), "processing"))
     ELSE /\ Set(h, At(hs[h], "raised"))
          /\ UNCHANGED <<msgs, view>>
  /\ UNCHANGED <<store, now, msgGate, cbGate, dir, nextId, dropped>>

\* get_video_info returns or raises; e is kept for str(e)
TextProbe(h, ok) ==
  /\ hs[h].kind = "text" /\ hs[h].pc = "probe"
  /\ Outcome(ok)
  /\ IF ok THEN Set(h, At(hs[h], "edit_select_format"))
     ELSE \E e \in ProbeErrors :
            Set(h, [At(hs[h], "edit_error") EXCEPT !.error = e])
  /\ UNCHANGED <<store, now, msgGate, cbGate, msgs, view, dir, nextId, dropped>>

\* Message.edit_text: Telegram rejects an edit that changes nothing
EditAccepts(m, text, kb) ==
  <<msgs[m].text, msgs[m].detail, msgs[m].kb>> # <<text, <<>>, kb>>

Edited(m, text, kb) ==
  [msgs EXCEPT ![m] = [@ EXCEPT !.text = text, !.detail = <<>>, !.kb = kb]]

\* edit_text on the handler's message succeeds
EditOk(h, ok, text, kb) == ok /\ EditAccepts(hs[h].msg, text, kb)

\* parse_mode=HTML: Telegram rejects a text with a '<' that opens no tag
\* it supports
ParsesAsHtml(detail) == \A i \in 1..Len(detail) : detail[i] # "<"

\* edit_text(get_message("error", language, error=detail)): the template
\* with the detail put in; rejected when it does not parse or changes nothing
EditErrorAccepts(m, detail) ==
  /\ ParsesAsHtml(detail)
  /\ <<msgs[m].text, msgs[m].detail, msgs[m].kb>> # <<"error", detail, NoKeyboard>>

EditedError(m, detail) ==
  [msgs EXCEPT ![m] = [@ EXCEPT !.text = "error", !.detail = detail,
                                !.kb = NoKeyboard]]

EditErrorOk(h, ok, detail) == ok /\ EditErrorAccepts(hs[h].msg, detail)

\* processing_message.edit_text(select_format, format keyboard)
TextEditSelectFormat(h, ok) ==
  /\ hs[h].kind = "text" /\ hs[h].pc = "edit_select_format"
  /\ Outcome(ok)
  /\ LET kb == get_format_keyboard(hs[h].url)
     IN IF EditOk(h, ok, "select_format", kb)
        THEN /\ msgs' = Edited(hs[h].msg, "select_format", kb)
             /\ Set(h, Logged(At(hs[h], "done"), "select_format"))
        ELSE /\ Set(h, [At(hs[h], "edit_error") EXCEPT !.error = TransportError])
             /\ UNCHANGED msgs
  /\ UNCHANGED <<store, now, msgGate, cbGate, view, dir, nextId, dropped>>

\* an except branch that shows the error above the format keyboard
TextEditErrorWithKeyboard(h, ok) ==
  /\ hs[h].kind = "text" /\ hs[h].pc = "edit_error"
  /\ Outcome(ok)
  /\ LET kb == get_format_keyboard(hs[h].url)
     IN IF EditOk(h, ok, "error", kb)
        THEN /\ msgs' = Edited(hs[h].msg, "error", kb)
             /\ Set(h, Logged(At(hs[h], "done"), "error"))
        ELSE /\ Set(h, At(hs[h], "raised"))
             /\ UNCHANGED msgs
  /\ UNCHANGED <<store, now, msgGate, cbGate, view, dir, nextId, dropped>>

\* except Exception: processing_message.edit_text(error)
TextEditError(h, ok) ==
  /\ hs[h].kind = "text" /\ hs[h].pc = "edit_error"
  /\ Outcome(ok)
  /\ IF EditErrorOk(h, ok, hs[h].error)
     THEN /\ msgs' = EditedError(hs[h].msg, hs[h].error)
          /\ Set(h, Logged(At(hs[h], "done"), "error"))
     ELSE /\ Set(h, At(hs[h], "raised"))
          /\ UNCHANGED msgs
  /\ UNCHANGED <<store, now, msgGate, cbGate, view, dir, nextId, dropped>>

\* the client receives the bot's latest edit of a message
ClientSync(m) ==
  /\ view[m] # msgs[m].kb
  /\ view' = [view EXCEPT ![m] = msgs[m].kb]
  /\ UNCHANGED <<store, now, msgGate, cbGate, hs, msgs, dir, nextId, dropped, faults>>

---------------------------------------------------------------------------
(* Button presses: the gate on callback queries and the router *)

IsQualityButton(data) == StartsWith(data, <<"quality", ":">>)

IsLanguageButton(data) == StartsWith(data, <<"language", ":">>)

\* the buttons of a keyboard a user presses: every button, and of the
\* quality buttons the lowest and the highest quality
Pressable(kb) ==
  {kb[i] : i \in {j \in DOMAIN kb :
     \/ ~IsQualityButton(kb[j])
     \/ j = 1
     \/ ~IsQualityButton(kb[j + 1])}}

\* callback_format up to its first await
callback_format(u, m, data) ==
  LET parts == SplitColon(data)
      format_type == parts[2]
      url == IF Len(parts) > 2
             THEN CleanUrl(JoinColon(SubSeq(parts, 3, Len(parts))))
             ELSE <<>>
  IN IF url = <<>> \/ ~is_valid_youtube_url(url)
     THEN NewHandler("format", u, m, "edit_invalid", url, format_type)
     ELSE IF format_type = <<"video">>
     THEN NewHandler("format", u, m, "edit_processing", url, format_type)
     ELSE IF format_type = <<"audio">>
     THEN NewHandler("format", u, m, "edit_downloading", url, format_type)
     ELSE NewHandler("format", u, m, "answer", url, format_type)

\* a parser that takes the part after the second colon for the whole URL
callback_quality_one_part(u, m, data) ==
  LET parts == SplitColon(data)
      quality == parts[2]
      url == CleanUrl(parts[3])
  IN NewHandler("quality", u, m, "edit_downloading", url, quality)

\* callback_quality up to its first await
callback_quality(u, m, data) ==
  LET parts == SplitColon(data)
      quality == parts[2]
      url == CleanUrl(JoinColon(SubSeq(parts, 3, Len(parts))))
  IN NewHandler("quality", u, m, "edit_downloading", url, quality)

\* callback_back_to_format up to its first await
callback_back_to_format(u, m, data) ==
  LET parts == SplitColon(data)
      url == CleanUrl(JoinColon(SubSeq(parts, 2, Len(parts))))
  IN NewHandler("back", u, m, "edit_select_format", url, <<>>)

\* callback_cancel up to its first await
callback_cancel(u, m, data) ==
  NewHandler("cancel", u, m, "edit_cancelled", <<>>, <<>>)

\* the router: the first handler whose filter matches the callback data
\* (language buttons are routed by LanguagePressed)
Route(u, m, data) ==
  IF StartsWith(data, <<"format", ":">>) THEN callback_format(u, m, data)
  ELSE IF StartsWith(data, <<"quality", ":">>) THEN callback_quality(u, m, data)
  ELSE IF StartsWith(data, <<"back_to_format", ":">>)
  THEN callback_back_to_format(u, m, data)
  ELSE callback_cancel(u, m, data)

\* the user presses a button their client shows under message m
ButtonPressed(m, data) ==
  /\ data \in Pressable(view[m])
  /\ ~IsLanguageButton(data)
  /\ LET u == msgs[m].user
     IN IF Throttled(Get(cbGate, u, 0), now, CallbackRate)
        THEN Drop
        ELSE /\ cbGate' = Put(cbGate, u, now)
             /\ hs' = Append(hs, Route(u, m, data))
             /\ UNCHANGED <<store, now, msgGate, msgs, view, dir, nextId, dropped, faults>>

---------------------------------------------------------------------------
(* The language handlers *)

\* the commands that answer with the language keyboard
Commands == {"/start", "/language"}

\* a command arrives: the gate, then cmd_start or cmd_language up to its
\* await
CommandArrives(u, command) ==
  /\ IF Throttled(Get(msgGate, u, 0), now, MessageRate)
     THEN Drop
     ELSE /\ msgGate' = Put(msgGate, u, now)
          /\ hs' = Append(hs, NewHandler("command", u, 0, "answer_keyboard",
                                         <<>>, <<command>>))
          /\ UNCHANGED <<store, now, cbGate, msgs, view, dir, nextId, dropped, faults>>

\* message.answer(welcome or select_language, get_language_keyboard())
CommandAnswer(h, ok) ==
  /\ hs[h].kind = "command" /\ hs[h].pc = "answer_keyboard"
  /\ Outcome(ok)
  /\ IF ok
     THEN LET text == IF hs[h].arg = <<"/start">> THEN "welcome"
                      ELSE "select_language"
          IN /\ msgs' = Put(msgs, h, [user |-> hs[h].user, text |-> text,
                                      detail |-> <<>>,
                                      kb |-> get_language_keyboard])
             /\ view' = Put(view, h, get_language_keyboard)
             /\ Set(h, Logged(At([hs[h] EXCEPT !.msg = h], "done"), text))
     ELSE /\ Set(h, At(hs[h], "raised"))
          /\ UNCHANGED <<msgs, view>>
  /\ UNCHANGED <<store, now, msgGate, cbGate, dir, nextId, dropped>>

\* user_db.set_user_language(user_id, language): the table is changed, then
\* the file is written; a write that fails raises into the handler
SetUserLanguage(user_id, language, write_ok) ==
  /\ _users' = set_user_language(_users, user_id, language)
  /\ file' = _save_users(_users', write_ok)
  /\ UNCHANGED user_db

\* callback_language up to its first await
callback_language(u, m, data, write_ok) ==
  LET language == SplitColon(data)[2]
  IN NewHandler("language", u, m,
                IF write_ok THEN "edit_language_selected" ELSE "raised",
                <<>>, language)

\* the user presses a language button their client shows under message m
LanguagePressed(m, data, write_ok) ==
  /\ data \in Pressable(view[m])
  /\ IsLanguageButton(data)
  /\ LET u == msgs[m].user
     IN IF Throttled(Get(cbGate, u, 0), now, CallbackRate)
        THEN Drop
        ELSE /\ cbGate' = Put(cbGate, u, now)
             /\ Outcome(write_ok)
             /\ SetUserLanguage(u, SplitColon(data)[2][1], write_ok)
             /\ hs' = Append(hs, callback_language(u, m, data, write_ok))
             /\ UNCHANGED <<now, msgGate, msgs, view, dir, nextId, dropped>>

\* callback.message.edit_text(language_selected), without a keyboard
LanguageEdit(h, ok) ==
  /\ hs[h].kind = "language" /\ hs[h].pc = "edit_language_selected"
  /\ Outcome(ok)
  /\ LET m == hs[h].msg
     IN IF ok /\ <<msgs[m].text, msgs[m].detail, msgs[m].kb>>
                   # <<"language_selected", hs[h].arg, NoKeyboard>>
        THEN /\ msgs' = [msgs EXCEPT ![m] =
                           [@ EXCEPT !.text = "language_selected",
                                     !.detail = hs[h].arg,
                                     !.kb = NoKeyboard]]
             /\ Set(h, Logged(At(hs[h], "answer"), "language_selected"))
        ELSE /\ Set(h, At(hs[h], "raised"))
             /\ UNCHANGED msgs
  /\ UNCHANGED <<store, now, msgGate, cbGate, view, dir, nextId, dropped>>

\* the text of a language button arrives: the gate, then handle_text up to
\* its first await
LanguageTextArrives(u, text, write_ok) ==
  /\ text \in LanguageButtonTexts
  /\ IF Throttled(Get(msgGate, u, 0), now, MessageRate)
     THEN Drop
     ELSE LET selected_language == IF text = ButtonText("ru") THEN "ru"
                                   ELSE "en"
          IN /\ msgGate' = Put(msgGate, u, now)
             /\ Outcome(write_ok)
             /\ SetUserLanguage(u, selected_language, write_ok)
             /\ hs' = Append(hs,
                  NewHandler("text", u, 0,
                             IF write_ok THEN "answer_language_selected"
                             ELSE "raised",
                             CleanUrl(text), <<selected_language>>))
             /\ UNCHANGED <<now, cbGate, msgs, view, dir, nextId, dropped>>

\* message.answer(language_selected)
LanguageAnswer(h, ok) ==
  /\ hs[h].kind = "text" /\ hs[h].pc = "answer_language_selected"
  /\ Outcome(ok)
  /\ IF ok
     THEN /\ msgs' = Put(msgs, h, [user |-> hs[h].user,
                                   text |-> "language_selected",
                                   detail |-> hs[h].arg, kb |-> NoKeyboard])
          /\ view' = Put(view, h, NoKeyboard)
          /\ Set(h, Logged(At([hs[h] EXCEPT !.msg = h], "done"),
                           "language_selected"))
     ELSE /\ Set(h, At(hs[h], "raised"))
          /\ UNCHANGED <<msgs, view>>
  /\ UNCHANGED <<store, now, msgGate, cbGate, dir, nextId, dropped>>

---------------------------------------------------------------------------
(* Steps common to the button handlers *)

\* edit_text(invalid_url), then callback.answer() and return
EditInvalid(h, ok) ==
  /\ hs[h].kind \in {"format", "quality"} /\ hs[h].pc = "edit_invalid"
  /\ Outcome(ok)
  /\ IF EditOk(h, ok, "invalid_url", NoKeyboard)
     THEN /\ msgs' = Edited(hs[h].msg, "invalid_url", NoKeyboard)
          /\ Set(h, Logged(At(hs[h], "answer"), "invalid_url"))
     ELSE /\ Set(h, At(hs[h], "raised"))
          /\ UNCHANGED msgs
  /\ UNCHANGED <<store, now, msgGate, cbGate, view, dir, nextId, dropped>>

\* callback.answer()
Answer(h, ok) ==
  /\ hs[h].pc = "answer"
  /\ Outcome(ok)
  /\ Set(h, IF ok THEN Logged(At(hs[h], "done"), "ack") ELSE At(hs[h], "raised"))
  /\ UNCHANGED <<store, now, msgGate, cbGate, msgs, view, dir, nextId, dropped>>

\* callback_cancel: edit_text(operation_cancelled)
CancelEdit(h, ok) ==
  /\ hs[h].kind = "cancel" /\ hs[h].pc = "edit_cancelled"
  /\ Outcome(ok)
  /\ IF EditOk(h, ok, "operation_cancelled", NoKeyboard)
     THEN /\ msgs' = Edited(hs[h].msg, "operation_cancelled", NoKeyboard)
          /\ Set(h, Logged(At(hs[h], "answer"), "operation_cancelled"))
     ELSE /\ Set(h, At(hs[h], "raised"))
          /\ UNCHANGED msgs
  /\ UNCHANGED <<store, now, msgGate, cbGate, view, dir, nextId, dropped>>

\* callback_back_to_format: edit_text(select_format, format keyboard)
BackEdit(h, ok) ==
  /\ hs[h].kind = "back" /\ hs[h].pc = "edit_select_format"
  /\ Outcome(ok)
  /\ LET kb == get_format_keyboard(hs[h].url)
     IN IF EditOk(h, ok, "select_format", kb)
        THEN /\ msgs' = Edited(hs[h].msg, "select_format", kb)
             /\ Set(h, Logged(At(hs[h], "answer"), "select_format"))
        ELSE /\ Set(h, At(hs[h], "raised"))
             /\ UNCHANGED msgs
  /\ UNCHANGED <<store, now, msgGate, cbGate, view, dir, nextId, dropped>>

---------------------------------------------------------------------------
(* callback_format, video: the quality prompt *)

\* edit_text(processing)
FormatEditProcessing(h, ok) ==
  /\ hs[h].kind = "format" /\ hs[h].pc = "edit_processing"
  /\ Outcome(ok)
  /\ IF EditOk(h, ok, "processing", NoKeyboard)
     THEN /\ msgs' = Edited(hs[h].msg, "processing", NoKeyboard)
          /\ Set(h, Logged(At(hs[h], "probe_formats"), "processing"))
     ELSE /\ Set(h, At(hs[h], "raised"))
          /\ UNCHANGED msgs
  /\ UNCHANGED <<store, now, msgGate, cbGate, view, dir, nextId, dropped>>

\* get_available_formats: the probe fails, or reports the heights
get_available_formats_unguarded(probe_ok, formats) ==
  FormatsFromHeights(AvailableHeights(formats))

get_available_formats(probe_ok, formats) ==
  IF probe_ok THEN FormatsFromHeights(AvailableHeights(formats))
  ELSE DefaultFormats

\* get_video_info returns the formats of the video, or raises and the
\* except branch returns the standard list
FormatProbe(h, probe_ok, formats) ==
  /\ hs[h].kind = "format" /\ hs[h].pc = "probe_formats"
  /\ Outcome(probe_ok)
  /\ LET available_formats == get_available_formats(probe_ok, formats)
     IN IF probe_ok
        THEN Set(h, [At(hs[h], "edit_select_quality") EXCEPT
                       !.heights = AvailableHeights(formats),
                       !.formats = available_formats])
        ELSE \E e \in ProbeErrors :
               Set(h, [At(hs[h], "edit_select_quality") EXCEPT
                         !.error = e, !.formats = available_formats])
  /\ UNCHANGED <<store, now, msgGate, cbGate, msgs, view, dir, nextId, dropped>>

\* edit_text(select_quality, the keyboard of the available formats)
FormatEditSelectQuality(h, ok) ==
  /\ hs[h].kind = "format" /\ hs[h].pc = "edit_select_quality"
  /\ Outcome(ok)
  /\ LET kb == get_video_quality_keyboard(hs[h].url, hs[h].formats)
     IN IF EditOk(h, ok, "select_quality", kb)
        THEN /\ msgs' = Edited(hs[h].msg, "select_quality", kb)
             /\ Set(h, Logged(At(hs[h], "answer"), "select_quality"))
        ELSE /\ Set(h, At(hs[h], "edit_select_quality_default"))
             /\ UNCHANGED msgs
  /\ UNCHANGED <<store, now, msgGate, cbGate, view, dir, nextId, dropped>>

\* except Exception: edit_text(select_quality, the standard keyboard)
FormatEditSelectQualityDefault(h, ok) ==
  /\ hs[h].kind = "format" /\ hs[h].pc = "edit_select_quality_default"
  /\ Outcome(ok)
  /\ LET kb == get_video_quality_keyboard(hs[h].url, <<>>)
     IN IF EditOk(h, ok, "select_quality", kb)
        THEN /\ msgs' = Edited(hs[h].msg, "select_quality", kb)
             /\ Set(h, Logged(At(hs[h], "answer"), "select_quality"))
        ELSE /\ Set(h, At(hs[h], "raised"))
             /\ UNCHANGED msgs
  /\ UNCHANGED <<store, now, msgGate, cbGate, view, dir, nextId, dropped>>

---------------------------------------------------------------------------
(* YouTubeService: download_audio, download_video, cleanup_file *)

\* characters outside [\w\-_\. ]
UnsafeTokens == {"/", "//", ":", "?", "@", "/watch?v="}

\* re.sub(r'[^\w\-_\. ]', '_', title)
SafeTitle(title) ==
  [i \in 1..Len(title) |-> IF title[i] \in UnsafeTokens THEN "_" ELSE title[i]]

\* str(uuid.uuid4()), and file_id[:8]
Uuid(prefix, n) == <<prefix, "-", UuidRest[n]>>

Prefix8(file_id) == <<file_id[1]>>

\* the extension and the name suffix of a fetch: '.mp3', or '_<quality>' and '.mp4'
Ext(rec) == IF rec.kind = "quality" THEN ".mp4" ELSE ".mp3"

NameStem(rec) ==
  IF rec.kind = "quality" THEN SafeTitle(rec.title) \o <<"_">> \o rec.arg
  ELSE SafeTitle(rec.title)

\* os.path.exists
Exists(d, name) == name \in DOMAIN d

\* new_filename: the title, with file_id[:8] appended when that name exists
NewFilename(d, rec) ==
  IF Exists(d, NameStem(rec) \o <<Ext(rec)>>)
  THEN NameStem(rec) \o <<"_">> \o Prefix8(rec.file_id) \o <<Ext(rec)>>
  ELSE NameStem(rec) \o <<Ext(rec)>>

\* os.rename(src, dst): dst is replaced when it exists
Renamed(d, src, dst) == Put(Del(d, src), dst, d[src])

\* a cleanup that finds the path and does not remove it
cleanup_file_kept(d, file_path, remove_ok) == d

cleanup_file_all(d, file_path, remove_ok) ==
  IF Exists(d, file_path) /\ remove_ok THEN <<>> ELSE d

\* cleanup_file: os.remove when the path exists; a failure is logged, not raised
cleanup_file(d, file_path, remove_ok) ==
  IF Exists(d, file_path) /\ remove_ok THEN Del(d, file_path) ELSE d

\* the handler's finally: cleanup_file(file_path)
Cleaned(rec) == Logged(rec, "cleanup")

\* where an exception that is no TelegramAPIError goes: callback_quality
\* catches it (except Exception), callback_format lets it out
Escapes(rec) == IF rec.kind = "quality" THEN "edit_error_outer" ELSE "raised"

IsFetcher(rec) ==
  \/ rec.kind = "quality"
  \/ rec.kind = "format" /\ rec.arg = <<"audio">>

\* edit_text(downloading); then the download begins: uuid4(), get_video_info
EditDownloading(h, ok, prefix) ==
  /\ IsFetcher(hs[h]) /\ hs[h].pc = "edit_downloading"
  /\ Outcome(ok)
  /\ IF EditOk(h, ok, "downloading", NoKeyboard)
     THEN /\ msgs' = Edited(hs[h].msg, "downloading", NoKeyboard)
          /\ IF hs[h].kind = "quality" /\ ~is_valid_youtube_url(hs[h].url)
             THEN /\ Set(h, Logged(At(hs[h], "edit_invalid"), "downloading"))
                  /\ UNCHANGED nextId
             ELSE /\ nextId < Len(UuidRest)
                  /\ nextId' = nextId + 1
                  /\ Set(h, Logged(At([hs[h] EXCEPT
                                         !.file_id = Uuid(prefix, nextId + 1)],
                                      "probe"), "downloading"))
     ELSE /\ Set(h, At(hs[h], "raised"))
          /\ UNCHANGED <<msgs, nextId>>
  /\ UNCHANGED <<store, now, msgGate, cbGate, view, dir, dropped>>

\* download_*: get_video_info returns the title or raises
DownloadProbe(h, ok) ==
  /\ IsFetcher(hs[h]) /\ hs[h].pc = "probe"
  /\ Outcome(ok)
  /\ Set(h, IF ok THEN [At(hs[h], "download") EXCEPT !.title = VideoTitle]
            ELSE At(hs[h], "edit_failed"))
  /\ UNCHANGED <<store, now, msgGate, cbGate, msgs, view, dir, nextId, dropped>>

\* ydl_opts['format'] of download_video and download_audio
FormatCode(rec) ==
  IF rec.kind = "quality" THEN video_format_code(rec.arg) ELSE audio_format_code

\* what the extraction tool leaves in the directory
DownloadOutcomes == {"written", "other_ext", "error_partial", "error"}

\* download_*: the executor's _download ends; the file is found and renamed
Download(h, outcome, rename_ok, formats) ==
  /\ IsFetcher(hs[h]) /\ hs[h].pc = "download"
  /\ Outcome(outcome = "written" /\ rename_ok)
  /\ outcome # "written" => rename_ok
  /\ outcome \in {"written", "other_ext"} =>
       SelectFormats(FormatCode(hs[h]), formats) # {}
  /\ LET rec == IF outcome \in {"written", "other_ext"}
                THEN [hs[h] EXCEPT
                        !.selected = SelectFormats(FormatCode(hs[h]), formats)]
                ELSE hs[h]
         out == rec.file_id \o <<Ext(rec)>>
         written == Put(dir, out, h)
         new_path == NewFilename(written, rec)
     IN CASE outcome = "written" /\ rename_ok ->
               /\ dir' = Renamed(written, out, new_path)
               /\ Set(h, [At(rec, "edit_uploading") EXCEPT !.path = new_path])
          [] outcome = "written" /\ ~rename_ok ->
               /\ dir' = written
               /\ Set(h, At(rec, "edit_failed"))
          [] outcome = "other_ext" ->
               /\ dir' = Put(dir, rec.file_id \o <<".webm">>, h)
               /\ Set(h, At(rec, "edit_failed"))
          [] outcome = "error_partial" ->
               /\ dir' = Put(dir, rec.file_id \o <<".part">>, h)
               /\ Set(h, At(rec, "edit_failed"))
          [] outcome = "error" ->
               /\ dir' = dir
               /\ Set(h, At(rec, "edit_failed"))
  /\ UNCHANGED <<store, now, msgGate, cbGate, msgs, view, nextId, dropped>>

\* edit_text(uploading), before the try that ends in cleanup
EditUploading(h, ok) ==
  /\ IsFetcher(hs[h]) /\ hs[h].pc = "edit_uploading"
  /\ Outcome(ok)
  /\ IF EditOk(h, ok, "uploading", NoKeyboard)
     THEN /\ msgs' = Edited(hs[h].msg, "uploading", NoKeyboard)
          /\ Set(h, Logged(At(hs[h], "send"), "uploading"))
     ELSE /\ Set(h, At(hs[h], Escapes(hs[h])))
          /\ UNCHANGED msgs
  /\ UNCHANGED <<store, now, msgGate, cbGate, view, dir, nextId, dropped>>

\* answer_audio / answer_video of FSInputFile(file_path): sent, rejected by
\* the transport, or the file is gone (FileNotFoundError, then the finally)
Send(h, ok, remove_ok) ==
  /\ IsFetcher(hs[h]) /\ hs[h].pc = "send"
  /\ Outcome(ok /\ remove_ok)
  /\ LET rec == hs[h]
     IN IF ~Exists(dir, rec.path)
        THEN /\ ok /\ remove_ok
             /\ Set(h, Cleaned(At(rec, Escapes(rec))))
        ELSE /\ remove_ok
             /\ Set(h, IF ok
                       THEN Logged(At(rec, "edit_complete"),
                                   IF rec.kind = "quality" THEN "video" ELSE "audio")
                       ELSE At(rec, "edit_error"))
  /\ UNCHANGED <<store, now, msgGate, cbGate, msgs, view, dir, nextId, dropped>>

\* edit_text(download_complete), then the finally: cleanup_file
EditComplete(h, ok, remove_ok) ==
  /\ IsFetcher(hs[h]) /\ hs[h].pc = "edit_complete"
  /\ Outcome(ok /\ remove_ok)
  /\ IF EditOk(h, ok, "download_complete", NoKeyboard)
     THEN /\ msgs' = Edited(hs[h].msg, "download_complete", NoKeyboard)
          /\ dir' = cleanup_file(dir, hs[h].path, remove_ok)
          /\ Set(h, Cleaned(Logged(At(hs[h], "answer"), "download_complete")))
     ELSE /\ remove_ok
          /\ Set(h, At(hs[h], "edit_error"))
          /\ UNCHANGED <<msgs, dir>>
  /\ UNCHANGED <<store, now, msgGate, cbGate, view, nextId, dropped>>

\* an except branch with no finally after it: the file is not cleaned up
EditErrorNoCleanup(h, ok, remove_ok) ==
  /\ IsFetcher(hs[h]) /\ hs[h].pc = "edit_error"
  /\ Outcome(ok /\ remove_ok)
  /\ remove_ok
  /\ IF EditErrorOk(h, ok, TransportError)
     THEN /\ msgs' = EditedError(hs[h].msg, TransportError)
          /\ Set(h, Logged(At(hs[h], "answer"), "error"))
     ELSE /\ Set(h, At(hs[h], Escapes(hs[h])))
          /\ UNCHANGED msgs
  /\ UNCHANGED <<store, now, msgGate, cbGate, view, dir, nextId, dropped>>

\* except TelegramAPIError: edit_text(error), then the finally: cleanup_file
EditError(h, ok, remove_ok) ==
  /\ IsFetcher(hs[h]) /\ hs[h].pc = "edit_error"
  /\ Outcome(ok /\ remove_ok)
  /\ dir' = cleanup_file(dir, hs[h].path, remove_ok)
  /\ IF EditErrorOk(h, ok, TransportError)
     THEN /\ msgs' = EditedError(hs[h].msg, TransportError)
          /\ Set(h, Cleaned(Logged(At(hs[h], "answer"), "error")))
     ELSE /\ Set(h, Cleaned(At(hs[h], Escapes(hs[h]))))
          /\ UNCHANGED msgs
  /\ UNCHANGED <<store, now, msgGate, cbGate, view, nextId, dropped>>

\* no file came back: edit_text(error, "Failed to download")
EditFailed(h, ok) ==
  /\ IsFetcher(hs[h]) /\ hs[h].pc = "edit_failed"
  /\ Outcome(ok)
  /\ IF EditErrorOk(h, ok, FailedToDownload)
     THEN /\ msgs' = EditedError(hs[h].msg, FailedToDownload)
          /\ Set(h, Logged(At(hs[h], "answer"), "error"))
     ELSE /\ Set(h, At(hs[h], Escapes(hs[h])))
          /\ UNCHANGED msgs
  /\ UNCHANGED <<store, now, msgGate, cbGate, view, dir, nextId, dropped>>

\* callback_quality, except Exception: edit_text(error)
EditErrorOuter(h, ok) ==
  /\ hs[h].kind = "quality" /\ hs[h].pc = "edit_error_outer"
  /\ Outcome(ok)
  /\ IF EditErrorOk(h, ok, TransportError)
     THEN /\ msgs' = EditedError(hs[h].msg, TransportError)
          /\ Set(h, Logged(At(hs[h], "answer"), "error"))
     ELSE /\ Set(h, At(hs[h], "raised"))
          /\ UNCHANGED msgs
  /\ UNCHANGED <<store, now, msgGate, cbGate, view, dir, nextId, dropped>>

Next ==
  \/ Wait
  \/ Len(hs) < MaxHandlers /\ \E u \in Users, text \in Texts : TextArrives(u, text)
  \/ \E h \in Handlers, ok \in BOOLEAN : TextAnswerProcessing(h, ok)
  \/ \E h \in Handlers, ok \in BOOLEAN : TextProbe(h, ok)
  \/ \E h \in Handlers, ok \in BOOLEAN : TextEditSelectFormat(h, ok)
  \/ \E h \in Handlers, ok \in BOOLEAN : TextEditError(h, ok)
  \/ \E m \in DOMAIN msgs : ClientSync(m)
  \/ Len(hs) < MaxHandlers /\ \E m \in DOMAIN msgs :
       \E data \in Pressable(view[m]) : ButtonPressed(m, data)
  \/ \E h \in Handlers, ok \in BOOLEAN : Answer(h, ok)
  \/ \E h \in Handlers, ok \in BOOLEAN : CancelEdit(h, ok)
  \/ \E h \in Handlers, ok \in BOOLEAN : BackEdit(h, ok)
  \/ \E h \in Handlers, ok \in BOOLEAN : FormatEditProcessing(h, ok)
  \/ \E h \in Handlers, ok \in BOOLEAN, formats \in FormatSets : FormatProbe(h, ok, formats)
  \/ \E h \in Handlers, ok \in BOOLEAN : FormatEditSelectQuality(h, ok)
  \/ \E h \in Handlers, ok \in BOOLEAN : FormatEditSelectQualityDefault(h, ok)
  \/ \E h \in Handlers, ok \in BOOLEAN, prefix \in UuidPrefixes :
       EditDownloading(h, ok, prefix)
  \/ \E h \in Handlers, ok \in BOOLEAN : DownloadProbe(h, ok)
  \/ \E h \in Handlers, outcome \in DownloadOutcomes, rename_ok \in BOOLEAN,
       formats \in FormatSets : Download(h, outcome, rename_ok, formats)
  \/ \E h \in Handlers, ok \in BOOLEAN : EditUploading(h, ok)
  \/ \E h \in Handlers, ok \in BOOLEAN, remove_ok \in BOOLEAN : Send(h, ok, remove_ok)
  \/ \E h \in Handlers, ok \in BOOLEAN, remove_ok \in BOOLEAN :
       EditComplete(h, ok, remove_ok)
  \/ \E h \in Handlers, ok \in BOOLEAN, remove_ok \in BOOLEAN :
       EditError(h, ok, remove_ok)
  \/ \E h \in Handlers, ok \in BOOLEAN : EditFailed(h, ok)
  \/ \E h \in Handlers, ok \in BOOLEAN : EditErrorOuter(h, ok)

Spec == Init /\ [][Next]_vars

---------------------------------------------------------------------------
(* The same program when users only send the link and only press "audio",
   and no call of the environment fails *)

IsAudioButton(data) == StartsWith(data, <<"format", ":", "audio">>)

NextAudio ==
  \/ Wait
  \/ Len(hs) < MaxAudioHandlers /\ \E u \in Users : TextArrives(u, LinkText)
  \/ \E h \in Handlers, ok \in {TRUE} : TextAnswerProcessing(h, ok)
  \/ \E h \in Handlers, ok \in {TRUE} : TextProbe(h, ok)
  \/ \E h \in Handlers, ok \in {TRUE} : TextEditSelectFormat(h, ok)
  \/ \E m \in DOMAIN msgs : ClientSync(m)
  \/ Len(hs) < MaxAudioHandlers /\ \E m \in DOMAIN msgs :
       \E data \in {d \in Pressable(view[m]) : IsAudioButton(d)} : ButtonPressed(m, data)
  \/ \E h \in Handlers, ok \in {TRUE} : Answer(h, ok)
  \/ \E h \in Handlers, ok \in {TRUE}, prefix \in UuidPrefixes :
       EditDownloading(h, ok, prefix)
  \/ \E h \in Handlers, ok \in {TRUE} : DownloadProbe(h, ok)
  \/ \E h \in Handlers, outcome \in {"written"}, rename_ok \in {TRUE},
       formats \in FormatSets : Download(h, outcome, rename_ok, formats)
  \/ \E h \in Handlers, ok \in {TRUE} : EditUploading(h, ok)
  \/ \E h \in Handlers, ok \in {TRUE}, remove_ok \in {TRUE} : Send(h, ok, remove_ok)
  \/ \E h \in Handlers, ok \in {TRUE}, remove_ok \in {TRUE} :
       EditComplete(h, ok, remove_ok)
  \/ \E h \in Handlers, ok \in {TRUE}, remove_ok \in {TRUE} :
       EditError(h, ok, remove_ok)

SpecAudio == Init /\ [][NextAudio]_vars

---------------------------------------------------------------------------
(* The same program when users only send the link and only press "audio",
   and nothing fails but the deletion of a file *)

NextCleanup ==
  \/ Wait
  \/ Len(hs) < MaxAudioHandlers /\ \E u \in Users : TextArrives(u, LinkText)
  \/ \E h \in Handlers : TextAnswerProcessing(h, TRUE)
  \/ \E h \in Handlers : TextProbe(h, TRUE)
  \/ \E h \in Handlers : TextEditSelectFormat(h, TRUE)
  \/ \E m \in DOMAIN msgs : ClientSync(m)
  \/ Len(hs) < MaxAudioHandlers /\ \E m \in DOMAIN msgs :
       \E data \in {d \in Pressable(view[m]) : IsAudioButton(d)} : ButtonPressed(m, data)
  \/ \E h \in Handlers : Answer(h, TRUE)
  \/ \E h \in Handlers, prefix \in UuidPrefixes : EditDownloading(h, TRUE, prefix)
  \/ \E h \in Handlers : DownloadProbe(h, TRUE)
  \/ \E h \in Handlers, formats \in FormatSets : Download(h, "written", TRUE, formats)
  \/ \E h \in Handlers : EditUploading(h, TRUE)
  \/ \E h \in Handlers : Send(h, TRUE, TRUE)
  \/ \E h \in Handlers, remove_ok \in BOOLEAN : EditComplete(h, TRUE, remove_ok)
  \/ \E h \in Handlers, remove_ok \in BOOLEAN : EditError(h, TRUE, remove_ok)

SpecCleanup == Init /\ [][NextCleanup]_vars

---------------------------------------------------------------------------
(* The same program, two users, under a clock of tenths of a second, when
   users send texts and only press "cancel", and no call of the environment
   fails *)

GateUsers == {1, 2}

NextGate ==
  \/ Tick
  \/ Len(hs) < MaxHandlers /\ \E u \in GateUsers, text \in Texts : TextArrives(u, text)
  \/ \E h \in Handlers : TextAnswerProcessing(h, TRUE)
  \/ \E h \in Handlers : TextProbe(h, TRUE)
  \/ \E h \in Handlers : TextEditSelectFormat(h, TRUE)
  \/ \E m \in DOMAIN msgs : ClientSync(m)
  \/ Len(hs) < MaxHandlers /\ \E m \in DOMAIN msgs :
       \E data \in Pressable(view[m]) \cap {<<"cancel">>} : ButtonPressed(m, data)
  \/ \E h \in Handlers : CancelEdit(h, TRUE)
  \/ \E h \in Handlers : Answer(h, TRUE)

SpecGate == Init /\ [][NextGate]_vars

---------------------------------------------------------------------------
(* The same program when a cancel press is handled only while a fetch of
   its conversation is in flight *)

\* the handler is suspended in the fetch: the probe or the executor's download
InFlight(rec) == IsFetcher(rec) /\ rec.pc \in {"probe", "download"}

NextCancel ==
  \/ Wait
  \/ Len(hs) < MaxHandlers /\ \E u \in Users, text \in Texts : TextArrives(u, text)
  \/ \E h \in Handlers, ok \in BOOLEAN : TextAnswerProcessing(h, ok)
  \/ \E h \in Handlers, ok \in BOOLEAN : TextProbe(h, ok)
  \/ \E h \in Handlers, ok \in BOOLEAN : TextEditSelectFormat(h, ok)
  \/ \E h \in Handlers, ok \in BOOLEAN : TextEditError(h, ok)
  \/ \E m \in DOMAIN msgs : ClientSync(m)
  \/ Len(hs) < MaxHandlers /\ \E m \in DOMAIN msgs :
       \E data \in Pressable(view[m]) : ButtonPressed(m, data)
  \/ \E h \in Handlers, ok \in BOOLEAN : Answer(h, ok)
  \/ \E h \in Handlers, ok \in BOOLEAN :
       /\ \E f \in Handlers : InFlight(hs[f]) /\ hs[f].msg = hs[h].msg
       /\ CancelEdit(h, ok)
  \/ \E h \in Handlers, ok \in BOOLEAN : BackEdit(h, ok)
  \/ \E h \in Handlers, ok \in BOOLEAN : FormatEditProcessing(h, ok)
  \/ \E h \in Handlers, ok \in BOOLEAN, formats \in FormatSets : FormatProbe(h, ok, formats)
  \/ \E h \in Handlers, ok \in BOOLEAN : FormatEditSelectQuality(h, ok)
  \/ \E h \in Handlers, ok \in BOOLEAN : FormatEditSelectQualityDefault(h, ok)
  \/ \E h \in Handlers, ok \in BOOLEAN, prefix \in UuidPrefixes :
       EditDownloading(h, ok, prefix)
  \/ \E h \in Handlers, ok \in BOOLEAN : DownloadProbe(h, ok)
  \/ \E h \in Handlers, outcome \in DownloadOutcomes, rename_ok \in BOOLEAN,
       formats \in FormatSets : Download(h, outcome, rename_ok, formats)
  \/ \E h \in Handlers, ok \in BOOLEAN : EditUploading(h, ok)
  \/ \E h \in Handlers, ok \in BOOLEAN, remove_ok \in BOOLEAN : Send(h, ok, remove_ok)
  \/ \E h \in Handlers, ok \in BOOLEAN, remove_ok \in BOOLEAN :
       EditComplete(h, ok, remove_ok)
  \/ \E h \in Handlers, ok \in BOOLEAN, remove_ok \in BOOLEAN :
       EditError(h, ok, remove_ok)
  \/ \E h \in Handlers, ok \in BOOLEAN : EditFailed(h, ok)
  \/ \E h \in Handlers, ok \in BOOLEAN : EditErrorOuter(h, ok)

SpecCancel == Init /\ [][NextCancel]_vars

---------------------------------------------------------------------------
(* The event loop.  Two users; users send the link and press "audio"; no
   call of the environment fails.  A handler steps only when no other
   handler holds the loop. *)

\* the handler is inside a call of the extraction tool: _extract_info or
\* _download
InExtraction(rec) == rec.pc \in {"probe", "probe_formats", "download"}

\* only the probe is handed to the executor: _download is called directly
AwaitedInExecutorProbeOnly(pc) == pc \in {"probe", "probe_formats"}

\* await loop.run_in_executor(None, ...): the call runs on a worker thread
\* and the coroutine is suspended
AwaitedInExecutor(pc) == pc \in {"probe", "probe_formats", "download"}

\* the handler keeps the event loop's thread until its call returns
HoldsLoop(rec) == InExtraction(rec) /\ ~AwaitedInExecutor(rec.pc)

LoopFree(h) == \A g \in Handlers \ {h} : ~HoldsLoop(hs[g])

\* the event loop resumes handler h: the steps of NextLoop, for one handler
HandlerStep(h) ==
  /\ LoopFree(h)
  /\ \/ TextAnswerProcessing(h, TRUE)
     \/ TextProbe(h, TRUE)
     \/ TextEditSelectFormat(h, TRUE)
     \/ Answer(h, TRUE)
     \/ \E prefix \in UuidPrefixes : EditDownloading(h, TRUE, prefix)
     \/ DownloadProbe(h, TRUE)
     \/ \E formats \in FormatSets : Download(h, "written", TRUE, formats)
     \/ EditUploading(h, TRUE)
     \/ Send(h, TRUE, TRUE)
     \/ EditComplete(h, TRUE, TRUE)

NextLoop ==
  \/ /\ Len(hs) < MaxLoopHandlers
     /\ LoopFree(0)
     /\ \E u \in GateUsers : TextArrives(u, LinkText)
  \/ \E m \in DOMAIN msgs : ClientSync(m)
  \/ /\ Len(hs) < MaxLoopHandlers
     /\ LoopFree(0)
     /\ \E m \in DOMAIN msgs :
          \E data \in {d \in Pressable(view[m]) : IsAudioButton(d)} :
            ButtonPressed(m, data)
  \/ \E h \in Handlers : LoopFree(h) /\ TextAnswerProcessing(h, TRUE)
  \/ \E h \in Handlers : LoopFree(h) /\ TextProbe(h, TRUE)
  \/ \E h \in Handlers : LoopFree(h) /\ TextEditSelectFormat(h, TRUE)
  \/ \E h \in Handlers : LoopFree(h) /\ Answer(h, TRUE)
  \/ \E h \in Handlers, prefix \in UuidPrefixes :
       LoopFree(h) /\ EditDownloading(h, TRUE, prefix)
  \/ \E h \in Handlers : LoopFree(h) /\ DownloadProbe(h, TRUE)
  \/ \E h \in Handlers : LoopFree(h) /\ \E formats \in FormatSets : Download(h, "written", TRUE, formats)
  \/ \E h \in Handlers : LoopFree(h) /\ EditUploading(h, TRUE)
  \/ \E h \in Handlers : LoopFree(h) /\ Send(h, TRUE, TRUE)
  \/ \E h \in Handlers : LoopFree(h) /\ EditComplete(h, TRUE, TRUE)

SpecLoop == Init /\ [][NextLoop]_vars

---------------------------------------------------------------------------
(* The same program when one link is sent, every call of the chat
   transport and of the file system succeeds, and only the extraction tool
   may fail, in the probe of the link and in a fetch *)

NextFail ==
  \/ Wait
  \/ Len(hs) < 1 /\ \E u \in Users : TextArrives(u, LinkText)
  \/ \E h \in Handlers : TextAnswerProcessing(h, TRUE)
  \/ \E h \in Handlers, ok \in BOOLEAN : TextProbe(h, ok)
  \/ \E h \in Handlers : TextEditSelectFormat(h, TRUE)
  \/ \E h \in Handlers : TextEditError(h, TRUE)
  \/ \E m \in DOMAIN msgs : ClientSync(m)
  \/ Len(hs) < MaxFailHandlers /\ \E m \in DOMAIN msgs :
       \E data \in Pressable(view[m]) : ButtonPressed(m, data)
  \/ \E h \in Handlers : Answer(h, TRUE)
  \/ \E h \in Handlers : CancelEdit(h, TRUE)
  \/ \E h \in Handlers : BackEdit(h, TRUE)
  \/ \E h \in Handlers : FormatEditProcessing(h, TRUE)
  \/ \E h \in Handlers, formats \in FormatSets : FormatProbe(h, TRUE, formats)
  \/ \E h \in Handlers : FormatEditSelectQuality(h, TRUE)
  \/ \E h \in Handlers, prefix \in UuidPrefixes : EditDownloading(h, TRUE, prefix)
  \/ \E h \in Handlers : DownloadProbe(h, TRUE)
  \/ \E h \in Handlers, outcome \in {"written", "error"}, formats \in FormatSets :
       Download(h, outcome, TRUE, formats)
  \/ \E h \in Handlers : EditUploading(h, TRUE)
  \/ \E h \in Handlers : Send(h, TRUE, TRUE)
  \/ \E h \in Handlers : EditComplete(h, TRUE, TRUE)
  \/ \E h \in Handlers : EditFailed(h, TRUE)
  \/ \E h \in Handlers : EditErrorOuter(h, TRUE)

SpecFail == Init /\ [][NextFail]_vars

---------------------------------------------------------------------------
(* The same program when one link is sent and the user asks for video: the
   link may be that of any of the videos below, the extraction tool may
   fail, and every call of the chat transport and of the file system
   succeeds *)

\* info['formats'] of the videos: none, audio only, a video format with no
\* height, heights at, between and beyond the standard resolutions,
\* video-only and combined formats
ProbeFormatSets ==
  { {}, {AudioOnly}, {AudioOnly, Video(0)},
    {Video(360), Video(480), Video(720), AudioOnly},
    {Video(190), AudioOnly},
    {Video(200), Video(280), AudioOnly},
    {Video(600), AudioOnly},
    {Video(50), AudioOnly},
    {Video(300), Video(600), AudioOnly},
    {Video(4320), AudioOnly},
    {Combined(360)},
    {Video(2160), Combined(1440), Combined(720), AudioOnly},
    {Video(1080), Video(1440), AudioOnly} }
  \cup {{Video(RESOLUTIONS[q]), AudioOnly} : q \in DOMAIN RESOLUTIONS}

IsVideoButton(data) ==
  StartsWith(data, <<"format", ":", "video">>) \/ IsQualityButton(data)

NextFormats ==
  \/ Wait
  \/ Len(hs) < 1 /\ \E u \in Users : TextArrives(u, LinkText)
  \/ \E h \in Handlers : TextAnswerProcessing(h, TRUE)
  \/ \E h \in Handlers : TextProbe(h, TRUE)
  \/ \E h \in Handlers : TextEditSelectFormat(h, TRUE)
  \/ \E m \in DOMAIN msgs : ClientSync(m)
  \/ Len(hs) < MaxFormatHandlers /\ \E m \in DOMAIN msgs :
       \E data \in Pressable(view[m]) : IsVideoButton(data) /\ ButtonPressed(m, data)
  \/ \E h \in Handlers : Answer(h, TRUE)
  \/ \E h \in Handlers : FormatEditProcessing(h, TRUE)
  \/ \E h \in Handlers, ok \in BOOLEAN, formats \in ProbeFormatSets :
       FormatProbe(h, ok, formats)
  \/ \E h \in Handlers : FormatEditSelectQuality(h, TRUE)
  \/ \E h \in Handlers : EditDownloading(h, TRUE, "p")
  \/ \E h \in Handlers : DownloadProbe(h, TRUE)
  \/ \E h \in Handlers, outcome \in {"written", "error"}, formats \in ProbeFormatSets :
       Download(h, outcome, TRUE, formats)
  \/ \E h \in Handlers : EditUploading(h, TRUE)
  \/ \E h \in Handlers : Send(h, TRUE, TRUE)
  \/ \E h \in Handlers : EditComplete(h, TRUE, TRUE)
  \/ \E h \in Handlers : EditFailed(h, TRUE)

SpecFormats == Init /\ [][NextFormats]_vars

---------------------------------------------------------------------------
(* The same program when one text message arrives, of any tokens below, and
   no call of the environment fails *)

TextTokens ==
  {" ", "@", "youtube.com", "youtu.be", "notyoutube.community",
   "/watch?v=", "/", "id11", "hello"}

RECURSIVE TextsUpTo(_)
TextsUpTo(n) ==
  IF n = 0 THEN {<<>>}
  ELSE LET shorter == TextsUpTo(n - 1)
       IN shorter \cup {Append(s, t) : s \in shorter, t \in TextTokens}

\* message.text is never empty
AnyTexts == TextsUpTo(MaxTextLen) \ {<<>>}

NextLinks ==
  \/ Len(hs) < 1 /\ \E u \in Users, text \in AnyTexts : TextArrives(u, text)
  \/ \E h \in Handlers : TextAnswerProcessing(h, TRUE)
  \/ \E h \in Handlers : TextProbe(h, TRUE)
  \/ \E h \in Handlers : TextEditSelectFormat(h, TRUE)

SpecLinks == Init /\ [][NextLinks]_vars

---------------------------------------------------------------------------
(* The gate on messages before handlers registered with a throttling_rate
   flag *)

NextFlags ==
  \/ Tick
  \/ /\ Len(hs) < MaxFlagHandlers
     /\ \E u \in GateUsers, flag \in Flags : FlaggedArrives(u, flag)

SpecFlags == Init /\ [][NextFlags]_vars

---------------------------------------------------------------------------
(* Button presses whose URL fails validation.  Every keyboard this program
   builds carries a link that handle_text validated, so such a press comes
   from a message left in the chat by an earlier run: message 0, whose
   buttons carry no URL, an empty one or one the validator rejects *)

LegacyKeyboard ==
  << <<"quality", ":", "720p", ":">> \o JunkText,
     <<"format", ":", "video">>,
     <<"format", ":", "audio", ":">> \o JunkText,
     <<"quality", ":", "144p", ":">>,
     <<"cancel">> >>

InitLegacy ==
  /\ now = StartTime
  /\ msgGate = <<>>
  /\ cbGate = <<>>
  /\ hs = <<>>
  /\ msgs = [m \in {0} |-> [user |-> 1, text |-> "select_format",
                            detail |-> <<>>, kb |-> LegacyKeyboard]]
  /\ view = [m \in {0} |-> LegacyKeyboard]
  /\ dir = <<>>
  /\ nextId = 0
  /\ dropped = 0
  /\ faults = 0
  /\ Constructed(MissingFile)

NextLegacy ==
  \/ Wait
  \/ \E m \in DOMAIN msgs : ClientSync(m)
  \/ Len(hs) < MaxLegacyHandlers /\ \E m \in DOMAIN msgs :
       \E data \in Pressable(view[m]) : ButtonPressed(m, data)
  \/ \E h \in Handlers : EditInvalid(h, TRUE)
  \/ \E h \in Handlers : EditDownloading(h, TRUE, "p")
  \/ \E h \in Handlers : CancelEdit(h, TRUE)
  \/ \E h \in Handlers : Answer(h, TRUE)

SpecLegacy == InitLegacy /\ [][NextLegacy]_vars

---------------------------------------------------------------------------
(* The payloads of the buttons: a keyboard is built from any URL, and the
   handlers parse the payloads of the buttons pressed on it *)

UrlTokens == {"a", ":", " ", "@"}

RECURSIVE UrlsUpTo(_)
UrlsUpTo(n) ==
  IF n = 0 THEN {<<>>}
  ELSE LET shorter == UrlsUpTo(n - 1)
       IN shorter \cup {Append(s, t) : s \in shorter, t \in UrlTokens}

\* the URLs with no leading whitespace or '@'
PayloadUrls == {url \in UrlsUpTo(MaxUrlLen) : url # <<>> /\ url[1] \notin {" ", "@"}}

\* message 1 shows the format keyboard built by handle_text, or the quality
\* keyboard built by callback_format, for the URL of handler 1
InitPayloads ==
  /\ now = StartTime
  /\ msgGate = <<>>
  /\ cbGate = <<>>
  /\ \E url \in PayloadUrls :
       \/ /\ hs = << [NewHandler("text", 1, 1, "done", url, <<>>)
                        EXCEPT !.log = <<"processing", "select_format">>] >>
          /\ msgs = [m \in {1} |-> [user |-> 1, text |-> "select_format",
                                    detail |-> <<>>,
                                    kb |-> get_format_keyboard(url)]]
          /\ view = [m \in {1} |-> get_format_keyboard(url)]
       \/ /\ hs = << [NewHandler("format", 1, 1, "done", url, <<"video">>)
                        EXCEPT !.log = <<"processing", "select_quality", "ack">>,
                               !.formats = DefaultFormats] >>
          /\ msgs = [m \in {1} |->
                       [user |-> 1, text |-> "select_quality", detail |-> <<>>,
                        kb |-> get_video_quality_keyboard(url, DefaultFormats)]]
          /\ view = [m \in {1} |-> get_video_quality_keyboard(url, DefaultFormats)]
  /\ dir = <<>>
  /\ nextId = 0
  /\ dropped = 0
  /\ faults = 0
  /\ Constructed(MissingFile)

NextPayloads ==
  \/ Wait
  \/ Len(hs) < MaxPayloadHandlers /\ \E m \in DOMAIN msgs :
       \E data \in Pressable(view[m]) : ButtonPressed(m, data)
  \/ \E h \in Handlers : EditInvalid(h, TRUE)
  \/ \E h \in Handlers : EditDownloading(h, TRUE, "p")
  \/ \E h \in Handlers : BackEdit(h, TRUE)
  \/ \E h \in Handlers : CancelEdit(h, TRUE)
  \/ \E h \in Handlers : Answer(h, TRUE)

SpecPayloads == InitPayloads /\ [][NextPayloads]_vars

---------------------------------------------------------------------------
(* One link and the presses on its keyboards, when every call of the chat
   transport returns unless Telegram rejects it, the probe, the fetch and
   the delivery may fail, and the event loop runs every handler that can
   take a step *)

\* a step of handler h
AckStep(h) ==
  /\ h \in Handlers
  /\ \/ TextAnswerProcessing(h, TRUE)
     \/ TextProbe(h, TRUE)
     \/ TextEditSelectFormat(h, TRUE)
     \/ Answer(h, TRUE)
     \/ CancelEdit(h, TRUE)
     \/ BackEdit(h, TRUE)
     \/ FormatEditProcessing(h, TRUE)
     \/ \E ok \in BOOLEAN, formats \in FormatSets : FormatProbe(h, ok, formats)
     \/ FormatEditSelectQuality(h, TRUE)
     \/ \E prefix \in UuidPrefixes : EditDownloading(h, TRUE, prefix)
     \/ \E ok \in BOOLEAN : DownloadProbe(h, ok)
     \/ \E outcome \in {"written", "error"}, formats \in FormatSets :
          Download(h, outcome, TRUE, formats)
     \/ EditUploading(h, TRUE)
     \/ \E ok \in BOOLEAN : Send(h, ok, TRUE)
     \/ EditComplete(h, TRUE, TRUE)
     \/ EditError(h, TRUE, TRUE)
     \/ EditFailed(h, TRUE)

NextAck ==
  \/ Wait
  \/ Len(hs) < 1 /\ \E u \in Users : TextArrives(u, LinkText)
  \/ \E m \in DOMAIN msgs : ClientSync(m)
  \/ Len(hs) < MaxAckHandlers /\ \E m \in DOMAIN msgs :
       \E data \in Pressable(view[m]) : ButtonPressed(m, data)
  \/ \E h \in Handlers : TextAnswerProcessing(h, TRUE)
  \/ \E h \in Handlers : TextProbe(h, TRUE)
  \/ \E h \in Handlers : TextEditSelectFormat(h, TRUE)
  \/ \E h \in Handlers : Answer(h, TRUE)
  \/ \E h \in Handlers : CancelEdit(h, TRUE)
  \/ \E h \in Handlers : BackEdit(h, TRUE)
  \/ \E h \in Handlers : FormatEditProcessing(h, TRUE)
  \/ \E h \in Handlers, ok \in BOOLEAN, formats \in FormatSets :
       FormatProbe(h, ok, formats)
  \/ \E h \in Handlers : FormatEditSelectQuality(h, TRUE)
  \/ \E h \in Handlers, prefix \in UuidPrefixes : EditDownloading(h, TRUE, prefix)
  \/ \E h \in Handlers, ok \in BOOLEAN : DownloadProbe(h, ok)
  \/ \E h \in Handlers, outcome \in {"written", "error"}, formats \in FormatSets :
       Download(h, outcome, TRUE, formats)
  \/ \E h \in Handlers : EditUploading(h, TRUE)
  \/ \E h \in Handlers, ok \in BOOLEAN : Send(h, ok, TRUE)
  \/ \E h \in Handlers : EditComplete(h, TRUE, TRUE)
  \/ \E h \in Handlers : EditError(h, TRUE, TRUE)
  \/ \E h \in Handlers : EditFailed(h, TRUE)

\* asyncio resumes every handler whose awaited call has returned
FairAck == \A h \in 1..MaxAckHandlers : WF_vars(AckStep(h))

SpecAck == Init /\ [][NextAck]_vars /\ FairAck

---------------------------------------------------------------------------
(* The preference store, from the file found at startup to the language
   handlers of two users *)

\* what users.json may hold when the bot starts
StartupFiles ==
  { MissingFile,
    InvalidJson,
    JsonArray,
    JsonObject(<<>>),
    JsonObject([key \in {"1"} |-> [user_id |-> 1, language |-> "ru"]]),
    JsonObject([key \in {"2"} |-> [user_id |-> 2]]),
    JsonObject([key \in {"1", "2"} |->
                  [user_id |-> int(key), language |-> "ru"]]),
    JsonObject([key \in {"abc"} |-> [user_id |-> 1, language |-> "ru"]]) }

InitPrefs ==
  /\ now = StartTime
  /\ msgGate = <<>>
  /\ cbGate = <<>>
  /\ hs = <<>>
  /\ msgs = <<>>
  /\ view = <<>>
  /\ dir = <<>>
  /\ nextId = 0
  /\ dropped = 0
  /\ faults = 0
  /\ \E f \in StartupFiles : Constructed(f)

NextPrefs ==
  \/ user_db = "constructed" /\ Wait
  \/ /\ user_db = "constructed" /\ Len(hs) < MaxPrefHandlers
     /\ \E u \in GateUsers, command \in Commands : CommandArrives(u, command)
  \/ \E h \in Handlers : CommandAnswer(h, TRUE)
  \/ /\ user_db = "constructed" /\ Len(hs) < MaxPrefHandlers
     /\ \E m \in DOMAIN msgs, write_ok \in BOOLEAN :
          \E data \in Pressable(view[m]) : LanguagePressed(m, data, write_ok)
  \/ \E h \in Handlers, ok \in BOOLEAN : LanguageEdit(h, ok)
  \/ \E h \in Handlers : Answer(h, TRUE)
  \/ /\ user_db = "constructed" /\ Len(hs) < MaxPrefHandlers
     /\ \E u \in GateUsers, text \in LanguageButtonTexts,
           write_ok \in BOOLEAN : LanguageTextArrives(u, text, write_ok)
  \/ \E h \in Handlers : LanguageAnswer(h, TRUE)

SpecPrefs == InitPrefs /\ [][NextPrefs]_vars

---------------------------------------------------------------------------
(* What the claims speak of *)

\* the handler has returned or let an exception out
Finished(rec) == rec.pc \in {"done", "raised"}

InLog(rec, what) == \E i \in DOMAIN rec.log : rec.log[i] = what

Count(rec, what) == Cardinality({i \in DOMAIN rec.log : rec.log[i] = what})

\* download_audio / download_video returned a path
FetchSucceeded(rec) == IsFetcher(rec) /\ rec.path # NoName

\* the fetch has begun: its uuid is drawn
FetchBegun(rec) == rec.file_id # NoName

\* the files a request created that are in the directory
FilesOf(h) == {name \in DOMAIN dir : dir[name] = h}

\* between fetch success and cleanup
Holding(rec) ==
  FetchSucceeded(rec) /\ rec.pc \in {"edit_uploading", "send", "edit_complete", "edit_error"}

\* a cancel press on the message was handled
CancelHandled(m) ==
  \E c \in Handlers :
    hs[c].kind = "cancel" /\ hs[c].msg = m /\ InLog(hs[c], "operation_cancelled")

---------------------------------------------------------------------------
(* C1 *)

\* C1 (as the spec states it): every handler whose fetch returned a path has
\* invoked cleanup_file exactly once by the time it finishes, whichever
\* way it finishes.
C1_CleanupExactlyOnce ==
  \A h \in Handlers :
    Finished(hs[h]) /\ FetchSucceeded(hs[h]) => Count(hs[h], "cleanup") = 1

---------------------------------------------------------------------------
(* C2 *)

\* C2 (as the spec states it): when a request's handler has finished, no
\* file that request created is left in the download directory.  Stated
\* for the requests that ran cleanup_file whenever their fetch returned a
\* path, so that the missing cleanup of C1 is not what refutes it.
C2_NoFileLeft ==
  \A h \in Handlers :
    Finished(hs[h]) /\ (FetchSucceeded(hs[h]) => InLog(hs[h], "cleanup"))
    => FilesOf(h) = {}

---------------------------------------------------------------------------
(* C3 *)

\* C3 (as the spec states it): a text the link validator rejects is answered
\* with the invalid-link message, and no file is created for it.
C3_InvalidLinkReply ==
  \A h \in Handlers :
    hs[h].kind = "text" /\ ~is_valid_youtube_url(hs[h].url) /\ Finished(hs[h])
    => InLog(hs[h], "invalid_url") /\ FilesOf(h) = {}

---------------------------------------------------------------------------
(* C4 *)

\* the request that started the newest handler, when a step starts one
Started == Len(hs') > Len(hs)

NewRec == hs'[Len(hs')]

\* C4 (amended): each gate measures from the last request of the user that
\* it let through.  A handler starts only when its gate (messages 0.5 s,
\* button presses 0.3 s) let no request of the same user through less than
\* the gate's rate before; and a step that drops a request changes nothing
\* else: no handler, no message, no entry kept for a later retry.
C4_GateDrops ==
  [][/\ Started =>
          IF NewRec.kind = "text"
          THEN now - Get(msgGate, NewRec.user, 0) >= MessageRate
          ELSE now - Get(cbGate, NewRec.user, 0) >= CallbackRate
     /\ dropped' # dropped =>
          UNCHANGED <<store, now, msgGate, cbGate, hs, msgs, view, dir, nextId, faults>>
    ]_vars

\* a request was dropped after handlers of texts and of presses had started
C4_Witness ==
  /\ dropped > 0
  /\ \E h \in Handlers : hs[h].kind = "text"
  /\ \E h \in Handlers : hs[h].kind = "cancel"

\* the spec's one debounce interval, taken as the shorter of the two rates
DebounceInterval == CallbackRate

\* C4 (as the spec states it): whatever the kinds of the two requests, a
\* handler never starts less than the debounce interval after an earlier
\* request of the same user.
C4_AnyCombination ==
  [][Started =>
       /\ now - Get(msgGate, NewRec.user, 0) >= DebounceInterval
       /\ now - Get(cbGate, NewRec.user, 0) >= DebounceInterval
    ]_vars

---------------------------------------------------------------------------
(* C5 *)

\* C5 (as the spec states it): at any time at most one handler per user is
\* in progress.
C5_Serialized ==
  \A h1, h2 \in Handlers :
    h1 # h2 /\ hs[h1].user = hs[h2].user
    => Finished(hs[h1]) \/ Finished(hs[h2])

---------------------------------------------------------------------------
(* C6 *)

\* C6 (as the spec states it): once a cancel press of a conversation has
\* been handled (its handler has finished), no fetch begins for that
\* conversation.
C6_NoFetchAfterCancel ==
  [][\A h \in Handlers :
       ~FetchBegun(hs[h]) /\ FetchBegun(hs'[h])
       => ~\E c \in Handlers :
             /\ hs[c].kind = "cancel" /\ hs[c].msg = hs[h].msg
             /\ hs[c].pc = "done"
    ]_vars

---------------------------------------------------------------------------
(* C7 *)

\* C7 (as the spec states it), under SpecCancel, where every handled cancel
\* was handled while a fetch of its conversation was in flight: when the
\* handler of such a fetch has finished and the fetch returned a path,
\* cleanup_file has run.
C7_CleanupFollows ==
  \A h \in Handlers :
    Finished(hs[h]) /\ FetchSucceeded(hs[h]) /\ CancelHandled(hs[h].msg)
    => InLog(hs[h], "cleanup")

---------------------------------------------------------------------------
(* C8 *)

\* C8 (as the spec states it): no two requests that are between fetch
\* success and cleanup hold the same file path.
C8_DistinctPaths ==
  \A h1, h2 \in Handlers :
    h1 # h2 /\ Holding(hs[h1]) /\ Holding(hs[h2]) => hs[h1].path # hs[h2].path

---------------------------------------------------------------------------
(* C9 *)

\* an audio request whose probe, fetch, delivery and status edits succeeded
\* and whose handler has returned
AudioDelivered(rec) ==
  /\ rec.kind = "format" /\ rec.arg = <<"audio">> /\ rec.pc = "done"
  /\ InLog(rec, "audio") /\ InLog(rec, "download_complete")

\* the format prompt under the link, then what the audio handler showed
AudioScenario(rec) ==
  /\ hs[rec.msg].kind = "text"
  /\ hs[rec.msg].log = <<"processing", "select_format">>
  /\ rec.log = <<"downloading", "uploading", "audio", "download_complete",
                 "cleanup", "ack">>

---------------------------------------------------------------------------
(* C10 *)

\* C10: a fetch begins only in a handler of a button press under a link
\* whose probe succeeded and whose format prompt was shown; a video fetch
\* only in the handler of a quality press, after a format press "video"
\* under the same link whose quality prompt was shown; an audio fetch in
\* the handler of the format press "audio" itself; and a file is sent only
\* after the fetch of that handler returned its path.
C10_StateOrder ==
  \A h \in Handlers :
    LET rec == hs[h]
    IN /\ FetchBegun(rec) =>
            /\ rec.msg \in 1..(h - 1)
            /\ hs[rec.msg].kind = "text" /\ hs[rec.msg].url = rec.url
            /\ InLog(hs[rec.msg], "select_format")
            /\ \/ rec.kind = "format" /\ rec.arg = <<"audio">>
               \/ /\ rec.kind = "quality"
                  /\ \E f \in 1..(h - 1) :
                       /\ hs[f].kind = "format" /\ hs[f].arg = <<"video">>
                       /\ hs[f].msg = rec.msg
                       /\ InLog(hs[f], "select_quality")
       /\ InLog(rec, "audio") \/ InLog(rec, "video") =>
            /\ FetchSucceeded(rec)
            /\ InLog(rec, "audio") => rec.kind = "format"
            /\ InLog(rec, "video") => rec.kind = "quality"

\* a video was delivered after the format and the quality choice
C10_Witness ==
  \E h \in Handlers :
    hs[h].kind = "quality" /\ InLog(hs[h], "video") /\ hs[h].pc = "done"

---------------------------------------------------------------------------
(* C11 *)

\* C11: while a handler of one user is inside a probe or a download, the
\* event loop can resume every unfinished handler of every other user: no
\* handler keeps the loop for the duration of an extraction call.
C11_LoopNotHeld ==
  \A h1, h2 \in Handlers :
    hs[h1].user # hs[h2].user /\ InExtraction(hs[h1]) /\ ~Finished(hs[h2])
    => ENABLED HandlerStep(h2)

\* a user's link was handled to completion, prompt shown, while the
\* download of another user's earlier request was still running
C11_Witness ==
  \E h1, h2 \in Handlers :
    /\ h1 < h2 /\ hs[h1].user # hs[h2].user
    /\ hs[h1].pc = "download"
    /\ hs[h2].kind = "text" /\ hs[h2].pc = "done" /\ InLog(hs[h2], "select_format")

---------------------------------------------------------------------------
(* C12 *)

\* 'uploading' was shown and the send ended without the file delivered:
\* the transport rejected it (or the file could not be read)
NotDelivered(rec) ==
  /\ IsFetcher(rec) /\ InLog(rec, "uploading") /\ rec.pc # "send"
  /\ ~InLog(rec, "audio") /\ ~InLog(rec, "video")

FetchFailed(rec) ==
  /\ IsFetcher(rec) /\ FetchBegun(rec) /\ rec.path = NoName
  /\ rec.pc \notin {"probe", "download"}

\* C13: whenever the fetch fails, the handler delivers no file, invokes no
\* cleanup, does not raise, and has shown the error message by the time it
\* goes on to its acknowledgement.
C13_FetchFailureHandled ==
  \A h \in Handlers :
    LET rec == hs[h]
    IN FetchFailed(rec) =>
         /\ ~InLog(rec, "audio") /\ ~InLog(rec, "video")
         /\ ~InLog(rec, "cleanup")
         /\ rec.pc # "raised"
         /\ rec.pc \in {"answer", "done"} => InLog(rec, "error")

(* C14 *)

\* get_video_info raised in handle_text: the except branch is entered with
\* the exception of the probe
ProbeFailed(rec) == rec.kind = "text" /\ rec.error \in ProbeErrors

\* C14: when the probe fails after a recognized link, the handler shows no
\* format prompt, does not raise, and when it has finished the 'processing'
\* message has become the error message with the detail of the failure.
C14_ProbeErrorShown ==
  \A h \in Handlers :
    LET rec == hs[h]
    IN ProbeFailed(rec) =>
         /\ ~InLog(rec, "select_format")
         /\ rec.pc # "raised"
         /\ Finished(rec) =>
              /\ InLog(rec, "error")
              /\ msgs[rec.msg].text = "error"
              /\ msgs[rec.msg].detail = rec.error

(* C15 - C19: the quality labels offered for a video *)

\* the handler of a "video" press whose call of get_available_formats
\* has returned
FormatsReturned(rec) ==
  /\ rec.kind = "format" /\ rec.arg = <<"video">>
  /\ InLog(rec, "processing") /\ rec.pc # "probe_formats"

\* ... and the probe inside it succeeded
ProbeSucceeded(rec) == FormatsReturned(rec) /\ rec.error \notin ProbeErrors

\* label q is within tolerance of height h: |h - canonical(q)| is at most
\* the greater of canonical(q)/10 and 50
Near(h, q) ==
  \/ 10 * Abs(h - RESOLUTIONS[q]) <= RESOLUTIONS[q]
  \/ Abs(h - RESOLUTIONS[q]) <= 50

NearLabels(heights) == {q \in DOMAIN RESOLUTIONS : \E h \in heights : Near(h, q)}

\* the list holds exactly the labels of the set, each once
ListsExactly(formats, labels) ==
  /\ {formats[i] : i \in DOMAIN formats} = labels
  /\ Len(formats) = Cardinality(labels)

\* C15: the list of labels get_available_formats returns is strictly
\* ascending in canonical height (so holds no label twice), whichever
\* branch produced it: tolerance match, fallback or the error default.
C15_Ascending ==
  \A h \in Handlers :
    FormatsReturned(hs[h]) =>
      \A i, j \in DOMAIN hs[h].formats :
        i < j => RESOLUTIONS[hs[h].formats[i]] < RESOLUTIONS[hs[h].formats[j]]

\* one height within tolerance of two labels yields both, in order
C15_Witness ==
  \E h \in Handlers :
    /\ ProbeSucceeded(hs[h]) /\ hs[h].heights = {190}
    /\ hs[h].formats = <<"144p", "240p">>

\* C16 as stated: a probe that succeeds but reports no video height yields
\* the default list [144p, 240p, 360p, 480p, 720p, 1080p].
C16_EmptyYieldsDefault ==
  \A h \in Handlers :
    (ProbeSucceeded(hs[h]) /\ hs[h].heights = {}) =>
      hs[h].formats = <<"144p", "240p", "360p", "480p", "720p", "1080p">>

\* C16 amended: a probe that succeeds but reports no video height yields
\* [144p, 240p, 360p, 480p, 720p], the labels up to 720p; 1080p is not
\* among them.
C16_EmptyYieldsUpTo720 ==
  \A h \in Handlers :
    (ProbeSucceeded(hs[h]) /\ hs[h].heights = {}) =>
      hs[h].formats = <<"144p", "240p", "360p", "480p", "720p">>

\* a video with no video height was probed and its list has come back
C16_Witness ==
  \E h \in Handlers :
    /\ ProbeSucceeded(hs[h]) /\ hs[h].heights = {}
    /\ hs[h].pc = "done" /\ Len(hs[h].formats) = 5

\* C17: when some label is within tolerance of an available height, the
\* list holds exactly the labels within tolerance of some available
\* height; heights {360, 480, 720} yield exactly [360p, 480p, 720p].
C17_ToleranceMatch ==
  \A h \in Handlers :
    LET rec == hs[h]
    IN (ProbeSucceeded(rec) /\ NearLabels(rec.heights) # {}) =>
         /\ ListsExactly(rec.formats, NearLabels(rec.heights))
         /\ rec.heights = {360, 480, 720} =>
              rec.formats = <<"360p", "480p", "720p">>

\* the example of the claim
C17_Witness ==
  \E h \in Handlers :
    /\ ProbeSucceeded(hs[h]) /\ hs[h].heights = {360, 480, 720}
    /\ hs[h].formats = <<"360p", "480p", "720p">>

\* C18: when no label is within tolerance of any available height, the
\* list holds exactly the labels whose canonical height is at most the
\* greatest available height, 720 standing for it when there is none.
C18_Fallback ==
  \A h \in Handlers :
    LET rec == hs[h]
        greatest == IF rec.heights = {} THEN 720
                    ELSE CHOOSE x \in rec.heights : \A y \in rec.heights : y <= x
    IN (ProbeSucceeded(rec) /\ NearLabels(rec.heights) = {}) =>
         ListsExactly(rec.formats,
                      {q \in DOMAIN RESOLUTIONS : RESOLUTIONS[q] <= greatest})

\* two heights between the standard resolutions: the labels up to the
\* greater one
C18_Witness ==
  \E h \in Handlers :
    /\ ProbeSucceeded(hs[h]) /\ hs[h].heights = {300, 600}
    /\ hs[h].formats = <<"144p", "240p", "360p", "480p">>

\* C19: when the probe inside get_available_formats fails, the call
\* returns the default list [144p, 240p, 360p, 480p, 720p, 1080p] to
\* callback_format and raises nothing; and the edit that follows, when it
\* succeeds, shows the quality prompt with the keyboard of that list.
C19_ProbeFailureDegrades ==
  [][\A h \in Handlers :
       /\ (hs[h].pc = "probe_formats" /\ hs'[h].pc # "probe_formats"
             /\ faults' # faults) =>
            /\ hs'[h].formats = <<"144p", "240p", "360p", "480p", "720p", "1080p">>
            /\ hs'[h].pc = "edit_select_quality"
       /\ (hs[h].pc = "edit_select_quality" /\ hs[h].error \in ProbeErrors
             /\ hs'[h].pc = "answer") =>
            /\ msgs'[hs[h].msg].text = "select_quality"
            /\ msgs'[hs[h].msg].kb =
                 get_video_quality_keyboard(hs[h].url,
                   <<"144p", "240p", "360p", "480p", "720p", "1080p">>)]_vars

\* the probe failed and the handler finished with the prompt shown
C19_Witness ==
  \E h \in Handlers :
    /\ FormatsReturned(hs[h]) /\ hs[h].error \in ProbeErrors
    /\ hs[h].pc = "done" /\ InLog(hs[h], "select_quality")
    /\ Len(hs[h].formats) = 6

(* C20 *)

\* C20: for the label of a quality press, every video selector of the
\* format string, in the video-plus-audio alternative and in the
\* combined fallback, is capped at the label's canonical height, and no
\* format with video that the extraction tool selects is higher.
C20_HeightCapped ==
  \A h \in Handlers :
    LET rec == hs[h]
        code == video_format_code(rec.arg)
    IN (rec.kind = "quality" /\ rec.arg[1] \in DOMAIN RESOLUTIONS) =>
         /\ \A a \in DOMAIN code : \A i \in DOMAIN code[a] :
              code[a][i].pick \in {"bestvideo", "best"} =>
                /\ code[a][i].capped
                /\ code[a][i].height = RESOLUTIONS[rec.arg[1]]
         /\ \A f \in rec.selected :
              f.vcodec # "none" =>
                f.height # 0 /\ f.height <= RESOLUTIONS[rec.arg[1]]

\* 1080p asked of a video whose video-only format is higher: the combined
\* fallback took the 720 format, not the 1440 one
C20_Witness ==
  \E h \in Handlers :
    /\ hs[h].kind = "quality" /\ hs[h].arg = <<"1080p">>
    /\ hs[h].selected = {Combined(720)}
    /\ hs[h].pc = "done"

(* C21 *)

\* handle_text took the branch of a recognized link
TakenAsLink(rec) ==
  /\ rec.kind = "text"
  /\ rec.arg = <<>>
  /\ ~(rec.pc = "done" /\ rec.log = <<>>)

\* the string contains 'youtube.com' or 'youtu.be'
ContainsHost(s) ==
  \E i \in 1..Len(s) : s[i] \in {"youtube.com", "youtu.be", "notyoutube.community"}

\* C21: for the text a message handler passes to the validator, and for
\* that text behind '@' and blanks, the validator returns a boolean: true
\* when the string contains 'youtube.com' or 'youtu.be', false when it
\* contains neither and does not match the path pattern (the empty string
\* included); and the handler takes the link branch exactly when it
\* returned true.
C21_SupportedLink ==
  \A h \in Handlers :
    hs[h].kind = "text" =>
      /\ \A pre \in {<<>>, <<"@">>, <<" ", "@", " ">>} :
           LET s == pre \o hs[h].url
               r == is_valid_youtube_url(s)
           IN /\ r \in BOOLEAN
              /\ ContainsHost(s) => r
              /\ (~ContainsHost(s) /\ ~PatternMatches(s)) => ~r
      /\ TakenAsLink(hs[h]) <=> is_valid_youtube_url(hs[h].url)

\* a text with the host inside a longer word was taken as a link
C21_Witness ==
  \E h \in Handlers :
    /\ hs[h].url = <<"hello", " ", "notyoutube.community">>
    /\ TakenAsLink(hs[h]) /\ InLog(hs[h], "select_format")

(* C22 *)

\* the step runs cleanup_file(hs[h].path)
CleanupStep(h) == Count(hs'[h], "cleanup") > Count(hs[h], "cleanup")

\* every file but p is in the directory before and after, unchanged
OthersUntouched(p) ==
  \A q \in (DOMAIN dir \cup DOMAIN dir') \ {p} :
    q \in DOMAIN dir /\ q \in DOMAIN dir' /\ dir'[q] = dir[q]

\* C22 as stated: after a call of cleanup the path does not exist, and no
\* other file of the download directory is removed or changed.
C22_PathGoneAfterCleanup ==
  [][\A h \in Handlers :
       CleanupStep(h) =>
         ~Exists(dir', hs[h].path) /\ OthersUntouched(hs[h].path)]_vars

\* C22 amended: a call of cleanup removes or changes no other file; the
\* path is still there after it only when the deletion failed, and then
\* the directory is as it was and the handler goes on as it would have;
\* a call on a path already gone changes nothing, and once the path is
\* gone another call, failing or not, changes nothing.
C22_CleanupIdempotent ==
  [][\A h \in Handlers :
       CleanupStep(h) =>
         LET p == hs[h].path
         IN /\ OthersUntouched(p)
            /\ Exists(dir', p) => dir' = dir /\ faults' = faults + 1
            /\ ~Exists(dir, p) => dir' = dir
            /\ ~Exists(dir', p) =>
                 \A r \in BOOLEAN : cleanup_file(dir', p, r) = dir'
            /\ hs[h].pc = "edit_complete" => hs'[h].pc = "answer"]_vars

\* two requests ran cleanup on one path: the second found it gone
C22_Witness ==
  \E h1, h2 \in Handlers :
    /\ h1 # h2 /\ hs[h1].path # NoName /\ hs[h1].path = hs[h2].path
    /\ InLog(hs[h1], "cleanup") /\ InLog(hs[h2], "cleanup")
    /\ hs[h2].pc = "raised" /\ ~InLog(hs[h2], "audio")
    /\ ~Exists(dir, hs[h1].path)


---------------------------------------------------------------------------
(* C23 *)

\* the file is unreadable or corrupt: not JSON, JSON whose top level is not
\* an object, or an object with a key that is not an integer
Corrupt(f) ==
  \/ f.kind \in {"invalid", "array"}
  \/ f.kind = "object" /\ \E key \in DOMAIN f.entries : ~IsIntegerLiteral(key)

\* C23: at startup, over every unreadable or corrupt preference file, the
\* store is constructed without an error, its table is empty and every
\* user's language is the default.
C23_CorruptLoadsEmpty ==
  hs = <<>> /\ Corrupt(file) =>
    /\ user_db = "constructed"
    /\ _users = <<>>
    /\ \A u \in GateUsers : get_user_language(_users, u) = "en"

---------------------------------------------------------------------------
(* C24 *)

\* C24: the file holds the table: loading it yields, for every user, the
\* language the in-process table gives, also after a write that failed.
C24_FileHoldsTable ==
  user_db = "constructed" =>
    LET loaded == _load_users(file)
    IN /\ ~loaded.raised
       /\ \A u \in GateUsers :
            get_user_language(loaded.users, u) = get_user_language(_users, u)

---------------------------------------------------------------------------
(* C25 *)

\* the step starts a handler that calls set_user_language
SetCall ==
  /\ Len(hs') = Len(hs) + 1
  /\ LET rec == hs'[Len(hs')]
     IN rec.kind = "language" \/ (rec.kind = "text" /\ rec.arg # <<>>)

\* C25: set_user_language(u, l) makes get_user_language(u) return l, keeps
\* one record for u, under u's key, and leaves the record of every other
\* user unchanged; a user without a record has the default 'en'.
C25_SetThenGet ==
  /\ [](\A u \in GateUsers \ DOMAIN _users :
          get_user_language(_users, u) = "en")
  /\ [][SetCall =>
          LET rec == hs'[Len(hs')]
              u == rec.user
              l == rec.arg[1]
          IN /\ get_user_language(_users', u) = l
             /\ u \in DOMAIN _users' /\ _users'[u].user_id = u
             /\ \A v \in (DOMAIN _users \cup DOMAIN _users') \ {u} :
                  /\ v \in DOMAIN _users /\ v \in DOMAIN _users'
                  /\ _users'[v] = _users[v]]_vars

\* user 1 chose 'en' on the language keyboard while user 2 has a record
C25_Witness ==
  /\ \E h \in Handlers :
       hs[h].kind = "language" /\ hs[h].user = 1 /\ hs[h].arg = <<"en">>
  /\ 1 \in DOMAIN _users /\ _users[1].language = "en"
  /\ 2 \in DOMAIN _users /\ _users[2].language = "ru"


---------------------------------------------------------------------------
(* C26 *)

\* C26: a handler whose throttling_rate flag is 0 is exempt from rate
\* limiting: a request to it is passed however soon it follows the user's
\* previous request.
C26_ZeroFlagExempt == \A u \in GateUsers : Passes(u, Flag(0))


---------------------------------------------------------------------------
(* C27 *)

\* the handlers started by the requests of user u that a gate passed: the
\* gate on messages passes the texts, the gate on callback queries the
\* button presses
PassedBy(gate, u) ==
  {h \in Handlers : hs[h].user = u /\ ((hs[h].kind = "text") <=> (gate = "message"))}

RateOf(gate) == IF gate = "message" THEN MessageRate ELSE CallbackRate

TableOf(gate) == IF gate = "message" THEN msgGate ELSE cbGate

\* C27: through one gate, two requests of the same user that were both
\* passed arrived at least the gate's interval apart, and the first request
\* of a user is passed.
C27_PassedApart ==
  \A gate \in {"message", "callback"}, u \in GateUsers :
    /\ \A h1, h2 \in PassedBy(gate, u) :
         h1 # h2 => Abs(hs[h2].at - hs[h1].at) >= RateOf(gate)
    /\ PassedBy(gate, u) = {} => ~Throttled(Get(TableOf(gate), u, 0), now, RateOf(gate))

\* two texts of user 1 were passed exactly the interval apart, and a button
\* press of the user was passed in between
C27_Witness ==
  /\ \E h1, h2 \in PassedBy("message", 1) : hs[h2].at - hs[h1].at = MessageRate
  /\ \E h \in PassedBy("callback", 1) : hs[h].at < now

---------------------------------------------------------------------------
(* C28 *)

\* the arrival time of the last request of u the gate passed
LastPassed(gate, u) == SetMax({hs[h].at : h \in PassedBy(gate, u)})

\* table `new` differs from table `old` at most in the entry of user u
OnlyEntryOf(u, old, new) ==
  \A v \in (DOMAIN old \cup DOMAIN new) \ {u} :
    v \in DOMAIN old /\ v \in DOMAIN new /\ new[v] = old[v]

\* C28: a dropped request leaves the last-request tables unchanged, so each
\* entry is the arrival time of the user's last accepted request; an
\* accepted request changes only the entry of its own user, in its own gate.
C28_TableFrame ==
  /\ [](\A gate \in {"message", "callback"} :
          /\ DOMAIN TableOf(gate) = {u \in GateUsers : PassedBy(gate, u) # {}}
          /\ \A u \in DOMAIN TableOf(gate) :
               TableOf(gate)[u] = LastPassed(gate, u))
  /\ [][/\ dropped' # dropped => UNCHANGED <<msgGate, cbGate>>
        /\ Started =>
             /\ OnlyEntryOf(NewRec.user, msgGate, msgGate')
             /\ OnlyEntryOf(NewRec.user, cbGate, cbGate')
             /\ IF NewRec.kind = "text" THEN UNCHANGED cbGate
                ELSE UNCHANGED msgGate
       ]_vars

\* a request was dropped, both users have an entry in the gate on messages,
\* and user 1 had a text accepted after an earlier one
C28_Witness ==
  /\ dropped > 0
  /\ DOMAIN msgGate = GateUsers
  /\ Cardinality(PassedBy("message", 1)) > 1


---------------------------------------------------------------------------
(* C29 *)

\* C29: every label get_available_formats offers for a non-empty set of
\* stream heights is feasible to download: some available height is at most
\* the label's canonical height, the cap of the format string built for it.
C29_OfferedFeasible ==
  \A h \in Handlers :
    (ProbeSucceeded(hs[h]) /\ hs[h].heights # {}) =>
      \A i \in DOMAIN hs[h].formats :
        \E available_height \in hs[h].heights :
          available_height <= RESOLUTIONS[hs[h].formats[i]]

---------------------------------------------------------------------------
(* C30 *)

\* the quality buttons of a keyboard
QualityButtons(kb) == {i \in DOMAIN kb : IsQualityButton(kb[i])}

\* C30: a message that prompts for the quality carries at least one quality
\* button, whatever heights the video has, also when get_available_formats
\* returned an empty list.
C30_PromptOffersLabel ==
  \A m \in DOMAIN msgs :
    msgs[m].text = "select_quality" => QualityButtons(msgs[m].kb) # {}

\* the only height of the video is below every tolerance window: the list
\* came back empty and the prompt shows the eight standard labels
C30_Witness ==
  \E h \in Handlers :
    /\ ProbeSucceeded(hs[h]) /\ hs[h].heights = {50} /\ hs[h].formats = <<>>
    /\ InLog(hs[h], "select_quality")
    /\ msgs[hs[h].msg].text = "select_quality"
    /\ Cardinality(QualityButtons(msgs[hs[h].msg].kb)) = 8


---------------------------------------------------------------------------
(* C31 *)

\* the handler of a format or quality press whose URL is missing or fails
\* link validation
InvalidPress(rec) ==
  /\ rec.kind \in {"format", "quality"}
  /\ (rec.url = <<>> \/ ~is_valid_youtube_url(rec.url))

\* C31: a format or quality press with a missing or unrecognized URL starts
\* no probe and no fetch and creates no file, and when its handler has
\* returned the invalid-link message was shown and the press acknowledged.
C31_InvalidPressRejected ==
  \A h \in Handlers :
    InvalidPress(hs[h]) =>
      /\ ~FetchBegun(hs[h]) /\ FilesOf(h) = {}
      /\ hs[h].pc \notin {"edit_processing", "probe_formats", "probe", "download"}
      /\ Finished(hs[h]) =>
           /\ hs[h].pc = "done"
           /\ InLog(hs[h], "invalid_url") /\ Count(hs[h], "ack") = 1


---------------------------------------------------------------------------
(* C32 *)

\* the payload of the button that a handler's parse result stands for
PayloadOf(rec) ==
  IF rec.kind = "format" THEN <<"format", ":">> \o rec.arg \o <<":">> \o rec.url
  ELSE IF rec.kind = "quality"
  THEN <<"quality", ":">> \o rec.arg \o <<":">> \o rec.url
  ELSE <<"back_to_format", ":">> \o rec.url

\* handler h parsed a press on the keyboard that handler 1 built
ParsedPress(h) ==
  h > 1 /\ hs[h].msg = 1 /\ hs[h].kind \in {"format", "quality", "back"}

\* the parse gave the URL the keyboard was built from, and the type or the
\* label of a button of that keyboard
RoundTrips(h) ==
  /\ hs[h].url = hs[1].url
  /\ \E i \in DOMAIN view[1] : view[1][i] = PayloadOf(hs[h])
  /\ hs[h].kind = "format" => hs[h].arg \in {<<"video">>, <<"audio">>}
  /\ hs[h].kind = "quality" =>
       Len(hs[h].arg) = 1 /\ hs[h].arg[1] \in DOMAIN RESOLUTIONS

\* C32 as stated: for every URL without leading whitespace or '@', parsing
\* the payloads format:<type>:<u>, quality:<q>:<u> and back_to_format:<u>
\* yields the type, q and u that were put in.
C32_RoundTripNoLeading ==
  \A h \in Handlers : ParsedPress(h) => RoundTrips(h)

\* C32 (amended): ... for every URL with no leading whitespace or '@' and
\* no trailing whitespace; the parse strips whitespace at both ends.
C32_RoundTripTrimmed ==
  \A h \in Handlers :
    (ParsedPress(h) /\ hs[1].url[Len(hs[1].url)] # " ") => RoundTrips(h)

\* a URL with a colon inside came back whole from a quality payload and
\* from a back_to_format payload
C32_Witness ==
  /\ hs[1].url = <<"a", ":", "a">>
  /\ \E h \in Handlers : ParsedPress(h) /\ hs[h].kind = "quality" /\ RoundTrips(h)
  /\ \E h \in Handlers : ParsedPress(h) /\ hs[h].kind = "back" /\ RoundTrips(h)


---------------------------------------------------------------------------
(* C33 *)

\* handler h is that of a format or quality press that passed the gate
PressHandled(h) == h \in Handlers /\ hs[h].kind \in {"format", "quality"}

\* callback.answer() was called for the press of handler h, once
Acknowledged(h) == h \in Handlers /\ Count(hs[h], "ack") = 1

\* C33: every format or quality press that passes the gate is eventually
\* acknowledged to the chat transport, and never more than once, whichever
\* path its handler takes.
C33_EventuallyAcknowledged ==
  /\ \A h \in 1..MaxAckHandlers : PressHandled(h) ~> Acknowledged(h)
  /\ [](\A h \in Handlers : Count(hs[h], "ack") <= 1)

=============================================================================
